---- MODULE Spec2Model ----
(***************************************************************************)
(* Model of the OpenClaw gateway client (src/unnamed/part_006,             *)
(* class GatewayClient): the connection state machine, the handshake, the  *)
(* heartbeat, automatic reconnection and command/response correlation.     *)
(*                                                                         *)
(* The client is event driven and single threaded: every action below is   *)
(* one complete callback (a public method called by the embedding          *)
(* application, a WebSocket event listener, or a timer callback).          *)
(*                                                                         *)
(* The transport is the `ws` WebSocket: it emits open at most once, then   *)
(* message / pong / error events, and close last. close() and terminate()  *)
(* move it to CLOSING; its close event is delivered either inside the call *)
(* (as the repository's MockWebSocket.close does) or by a later event (as  *)
(* the ws library does).                                                   *)
(***************************************************************************)
EXTENDS Integers, Sequences, FiniteSets, TLC

\* ---------------------------------------------------------------- constants

RECONNECT_BASE_MS == 1000
RECONNECT_MAX_MS == 30000
RECONNECT_MAX_ATTEMPTS == 10

\* Bounds of the model (not program constants).
MaxTransports == 2      \* transports alive at the same time
MaxCmds == 1            \* commands sent over the life of the client
MaxOutstanding == 2     \* commands sent in the sessions with several commands
MaxTimers == 2          \* reconnect timers scheduled and not yet fired
MaxAuto == 11           \* automatic attempts counted by the observer
MaxSeq == 2             \* highest sequence number an event carries
MaxRouters == 2         \* MessageRouter instances
MaxBatch == 3           \* objects in one batch given to the converter
MaxChildren == 2        \* children of a node
MaxCols == 2            \* columns of a Table node
MaxRows == 2            \* rows of a Table node
MaxValue == 2           \* highest small value of a Progress node
MaxHanded == 4          \* non-empty batches handed to CanvasPanel.postV08Messages
MaxRouted == 2          \* of them, batches handed to it by the routers
MaxPanels == 3          \* webview panels a CanvasPanel creates
MaxRequests == 2        \* request ids of node.invoke.request events
MaxInvokes == 2         \* node.invoke.request events with a payload received
MaxUnhandled == 2       \* handleInvoke promises left rejected

Slots == 1..MaxTransports
CmdIds == 1..(IF MaxCmds > MaxOutstanding THEN MaxCmds ELSE MaxOutstanding)

ConnectionState == {"disconnected", "connecting", "connected", "error"}

VARIABLES
  state,                 \* GatewayClient._state
  ws,                    \* GatewayClient.ws: a slot, 0 for null
  intentionalDisconnect, \* GatewayClient.intentionalDisconnect
  deviceKeys,            \* GatewayClient.deviceKeys is defined
  reconnectAttempt,      \* GatewayClient.reconnectAttempt
  reconnectTimer,        \* GatewayClient.reconnectTimer is not null
  pendingRequests,       \* keys of GatewayClient.pendingRequests (cmd_<n>)
  commandTimers,         \* commands whose 30 s timer is set and has neither
                         \* fired nor been cleared
  commandIdCounter,      \* GatewayClient.commandIdCounter
  heartbeatInterval,     \* transport the heartbeat interval probes, 0 for null
  heartbeatTimeout,      \* GatewayClient.heartbeatTimeout is not null
  transports,            \* per WebSocket: readyState, listeners, handshake timer,
                         \* and whether it still delivers message/pong/error
  timers,                \* reconnect timeouts scheduled and not yet fired/cleared
  outcome,               \* per command id: how its promise stands
  connectPromise,        \* the promise of the caller's latest connect()
  connectT,              \* transport that promise waits on, 0 when none
  out,                   \* what the last callback did: observers notified,
                         \* frame sent (with the nonce of its device assertion),
                         \* push event given to the onEvent handlers, error the
                         \* connect() promise was rejected with, value a command
                         \* was settled with, immediate rejection of the call,
                         \* delay of the reconnect timer scheduled
  path,                  \* progress of a fresh session along connect/open/challenge/ok
  observed,              \* states notified to observers along that path
  counting,              \* whether automatic attempts are being counted
  autoAttempts,          \* when counting: timer-initiated doConnect calls since
                         \* the last connect(), disconnect() or completed handshake
  lastSeq,               \* per MessageRouter: MessageRouter.lastSeq
  routed,                \* what the last route() call did: on which router,
                         \* whether the event passed the sequence gate, the
                         \* sink calls made, and the value of first before it
  first,                 \* per router: "fresh" or "reset" while no event with
                         \* a seq was routed since construction or since the
                         \* last resetSequence(), "no" afterwards
  idCounter,             \* a2uiV08's idCounter
  conv,                  \* the last conversion: the function called, its
                         \* input and the operations it returned
  canvas,                \* CanvasPanel: panel (0 for null), webviewReady,
                         \* pendingMessages; and the panels created, the
                         \* non-empty batches handed to postV08Messages and
                         \* the batches posted to a webview, in order
  nodeConn,              \* NodeConnection: readyState of its WebSocket
                         \* ("NONE" before connect()), its message listener
                         \* is attached, invokeHandler is not null, the
                         \* requests received with a payload, in order, the
                         \* ones of them whose handler promise is pending, the
                         \* node.invoke.result params sent, in order, and
                         \* the handleInvoke promises that were rejected
  observer               \* activate()'s onStateChange observer: whether it
                         \* is registered, previousState, hasConnectedBefore,
                         \* and the notifyReconnected calls of the last step

vars == <<state, ws, intentionalDisconnect, deviceKeys, reconnectAttempt,
          reconnectTimer, pendingRequests, commandTimers, commandIdCounter, heartbeatInterval,
          heartbeatTimeout, transports, timers, outcome, connectPromise,
          connectT, out, path, observed, counting, autoAttempts,
          lastSeq, routed, first, idCounter, conv, canvas, nodeConn,
          observer>>

clientVars ==
  <<state, ws, intentionalDisconnect, deviceKeys, reconnectAttempt,
    reconnectTimer, pendingRequests, commandTimers, commandIdCounter, heartbeatInterval,
    heartbeatTimeout, transports, timers, outcome, connectPromise,
    connectT, out, path, observed, counting, autoAttempts, observer>>

routerVars == <<lastSeq, routed, first>>

convVars == <<idCounter, conv>>
hostVars == <<canvas, nodeConn>>

\* A slot holding no WebSocket.
NoTransport ==
  [readyState |-> "CLOSED", stage |-> "none", handshakeTimer |-> FALSE, io |-> FALSE]

\* The client's fields and the step's observations as one record, so that a
\* callback can be written as a function from record to record and callbacks
\* that call each other compose.
Cur ==
  [state |-> state, ws |-> ws, intentionalDisconnect |-> intentionalDisconnect,
   deviceKeys |-> deviceKeys,
   reconnectAttempt |-> reconnectAttempt, reconnectTimer |-> reconnectTimer,
   pendingRequests |-> pendingRequests, commandTimers |-> commandTimers,
   commandIdCounter |-> commandIdCounter,
   heartbeatInterval |-> heartbeatInterval, heartbeatTimeout |-> heartbeatTimeout,
   transports |-> transports, timers |-> timers, outcome |-> outcome,
   connectPromise |-> connectPromise, connectT |-> connectT,
   autoAttempts |-> autoAttempts,
   notified |-> <<>>, sent |-> "none", device |-> "none", emitted |-> FALSE,
   connectError |-> "none", value |-> "none", result |-> "none", delay |-> 0,
   events |-> <<>>, raised |-> FALSE]

\* ------------------------------------------------------------ private methods

\* setState: observers are called only when the state changes.
SetState(s, st) ==
  IF s.state = st THEN s
  ELSE [s EXCEPT !.state = st, !.notified = Append(@, st)]

\* clearReconnectTimer: clears the timeout the field refers to.
ClearReconnectTimer(s) ==
  IF s.reconnectTimer
  THEN [s EXCEPT !.reconnectTimer = FALSE, !.timers = @ - 1]
  ELSE s

\* stopHeartbeat
StopHeartbeat(s) == [s EXCEPT !.heartbeatInterval = 0, !.heartbeatTimeout = FALSE]

\* startHeartbeat(ws)
StartHeartbeat(s, t) == [StopHeartbeat(s) EXCEPT !.heartbeatInterval = t]

\* rejectAllPending(reason)
RejectAllPending(s, reason) ==
  [s EXCEPT !.outcome = [i \in CmdIds |->
                           IF i \in s.pendingRequests THEN reason ELSE s.outcome[i]],
            !.commandTimers = @ \ s.pendingRequests,
            !.pendingRequests = {}]

\* Math.pow(2, n) and Math.min on the integers scheduleReconnect uses
RECURSIVE Pow2(_)
Pow2(n) == IF n = 0 THEN 1 ELSE 2 * Pow2(n - 1)

Min(a, b) == IF a <= b THEN a ELSE b

\* scheduleReconnect
ScheduleReconnect(s) ==
  IF s.intentionalDisconnect THEN s
  ELSE IF s.reconnectAttempt >= RECONNECT_MAX_ATTEMPTS THEN SetState(s, "error")
  ELSE [s EXCEPT !.delay = Min(RECONNECT_BASE_MS * Pow2(s.reconnectAttempt),
                                RECONNECT_MAX_MS),
                 !.reconnectAttempt = @ + 1,
                 !.reconnectTimer = TRUE,
                 !.timers = @ + 1]

\* The doConnect promise of transport t is settled; the model keeps the
\* outcome of the caller's latest connect() only.
Settle(s, t, how) ==
  IF s.connectT = t /\ s.connectPromise = "pending"
  THEN IF how = "resolved"
       THEN [s EXCEPT !.connectPromise = "resolved"]
       ELSE [s EXCEPT !.connectPromise = "rejected", !.connectError = how]
  ELSE s

\* After its close event (or after cleanup() removed its last listeners) a
\* WebSocket can no longer reach the client: its slot is free again.
Release(s, t) ==
  [s EXCEPT !.transports[t] = NoTransport,
            !.connectT = IF @ = t THEN 0 ELSE @]

FreeSlots(s) == {t \in Slots : s.transports[t].stage = "none"}

\* Mutant of doConnect: it forgets setState("connecting").
DoConnectSilent(s, caller) ==
  LET t == CHOOSE x \in FreeSlots(s) : \A y \in FreeSlots(s) : x <= y
  IN [s EXCEPT !.transports[t] =
                  [readyState |-> "CONNECTING", stage |-> "pre",
                   handshakeTimer |-> FALSE, io |-> TRUE],
               !.ws = t,
               !.connectT = IF caller THEN t ELSE @,
               !.connectPromise = IF caller THEN "pending" ELSE @]

\* doConnect: new WebSocket(url) with the open/error/close listeners attached.
DoConnect(s, caller) ==
  LET s1 == SetState(s, "connecting")
      t == CHOOSE x \in FreeSlots(s) : \A y \in FreeSlots(s) : x <= y
  IN [s1 EXCEPT !.transports[t] =
                   [readyState |-> "CONNECTING", stage |-> "pre",
                    handshakeTimer |-> FALSE, io |-> TRUE],
                !.ws = t,
                !.connectT = IF caller THEN t ELSE @,
                !.connectPromise = IF caller THEN "pending" ELSE @]

\* doConnect's onOpen: cleanup(), reset the attempt counter, setupMessageHandler
\* (which arms the 10 s handshake timer).
OnOpen(s, t) ==
  [s EXCEPT !.reconnectAttempt = 0,
            !.transports[t] = [readyState |-> "OPEN", stage |-> "hs",
                               handshakeTimer |-> TRUE, io |-> TRUE]]

\* doConnect's onError (the transport could not be opened).
OnError(s, t) ==
  LET s1 == SetState([s EXCEPT !.ws = 0], "error")
      s2 == IF s1.reconnectAttempt = 0 THEN Settle(s1, t, "open failed") ELSE s1
  IN Release(ScheduleReconnect(s2), t)

\* doConnect's onClose (closed before it opened).
OnClose(s, t) ==
  LET s1 == Settle([s EXCEPT !.ws = 0], t,
                   "Connection closed before handshake completed")
      s2 == IF s1.intentionalDisconnect THEN s1
            ELSE ScheduleReconnect(SetState(s1, "disconnected"))
  IN Release(s2, t)

\* Mutant of the close listener: it forgets rejectAllPending.
CloseHandlerKeepsPending(s, t) ==
  LET s1 == StopHeartbeat([s EXCEPT !.ws = 0])
      s2 == IF s.transports[t].stage = "hs"
            THEN Settle(s1, t, "Connection closed during handshake")
            ELSE s1
      s3 == IF s2.intentionalDisconnect THEN s2
            ELSE ScheduleReconnect(SetState(s2, "disconnected"))
  IN Release(s3, t)

\* setupMessageHandler's ws.on("close").
CloseHandler(s, t) ==
  LET s1 == RejectAllPending(StopHeartbeat([s EXCEPT !.ws = 0]), "closed")
      s2 == IF s.transports[t].stage = "hs"
            THEN Settle(s1, t, "Connection closed during handshake")
            ELSE s1
      s3 == IF s2.intentionalDisconnect THEN s2
            ELSE ScheduleReconnect(SetState(s2, "disconnected"))
  IN Release(s3, t)

\* The close event of transport t, to whichever close listener is attached.
CloseEvent(s, t) ==
  IF s.transports[t].stage = "pre" THEN OnClose(s, t) ELSE CloseHandler(s, t)

\* ws.close(code, reason) / ws.terminate(): the socket leaves OPEN/CONNECTING;
\* sync says whether its close event is delivered inside the call.
WsClose(s, t, sync) ==
  IF s.transports[t].stage = "none" THEN s
  ELSE LET s1 == [s EXCEPT !.transports[t].readyState = "CLOSING"]
       IN IF sync THEN CloseEvent(s1, t) ELSE s1

\* ws.terminate(): the socket is destroyed, so it delivers nothing but its
\* close event from then on.
WsTerminate(s, t, sync) ==
  IF s.transports[t].stage = "none" THEN s
  ELSE LET s1 == [s EXCEPT !.transports[t].readyState = "CLOSING",
                           !.transports[t].io = FALSE]
       IN IF sync THEN CloseEvent(s1, t) ELSE s1

\* The nonce of a connect.challenge payload: a missing payload or nonce, the
\* empty string, or a non-empty string.
Nonces == {"absent", "", "n1"}

\* Mutant of sendHandshake: the device assertion carries no nonce.
SendHandshakeNoNonce(s, t, nonce) ==
  IF s.transports[t].readyState = "OPEN"
  THEN [s EXCEPT !.sent = "connect",
                 !.device = IF s.deviceKeys THEN "absent" ELSE "none"]
  ELSE s

\* sendHandshake(ws, nonce): ws.send of the connect request; params.device is
\* set when device keys are configured, with a nonce field when the nonce is
\* truthy. On a socket that is no longer OPEN nothing is transmitted.
SendHandshake(s, t, nonce) ==
  IF s.transports[t].readyState = "OPEN"
  THEN [s EXCEPT !.sent = "connect",
                 !.device = IF ~s.deviceKeys THEN "none"
                            ELSE IF nonce \in {"absent", ""} THEN "absent"
                            ELSE nonce]
  ELSE s

\* completeHandshake (handshakeDone is false when it is called)
CompleteHandshake(s, t) ==
  LET s1 == [s EXCEPT !.transports[t].handshakeTimer = FALSE,
                      !.transports[t].stage = "ok",
                      !.autoAttempts = 0]
  IN Settle(StartHeartbeat(SetState(s1, "connected"), t), t, "resolved")

\* Values of the payload of a res frame and of its error field.
Payloads == {"absent", "p"}
Errors == {"absent", "boom", "{message:boom}", "{code:7}"}

\* Frames the server can send. id 0 stands for the id "connect".
Frames ==
  [type : {"event"}, event : {"connect.challenge"}, nonce : Nonces]
    \cup [type : {"event"}, event : {"push"}]
    \cup [type : {"res"}, id : {0}, ok : BOOLEAN,
          payload : {"absent"}, error : {"absent"}]
    \cup [type : {"res"}, id : CmdIds, ok : {TRUE},
          payload : Payloads, error : {"absent"}]
    \cup [type : {"res"}, id : CmdIds, ok : {FALSE},
          payload : {"absent"}, error : Errors]

\* A payload that is missing or null.
NoPayload == [missing |-> TRUE]

\* payload.stream, payload.data.delta, payload.kind, payload.state and
\* payload.errorMessage of a push frame ("absent": the field is not there).
Streams == {"absent", "assistant", "lifecycle"}
Deltas == {"absent", "", "hi"}
PassKinds == {"absent", "tool_start", "done"}
ChatStates == {"absent", "final", "error", "aborted", "delta"}
ErrorMessages == {"absent", "boom"}

\* parsed.seq of a push frame (hasSeq says whether it is defined).
PushSeqs == [hasSeq : {FALSE}, seq : {0}] \cup [hasSeq : {TRUE}, seq : {0, 1}]

\* The push frames of the two streams the client translates, of the two it
\* filters, and of another name ("foo").
PushFrames ==
  { [type |-> "event", event |-> "agent", hasSeq |-> q.hasSeq, seq |-> q.seq,
     payload |-> p] :
      q \in PushSeqs,
      p \in [stream : Streams, delta : Deltas, kind : PassKinds]
            \cup {NoPayload} }
    \cup { [type |-> "event", event |-> "chat", hasSeq |-> q.hasSeq,
            seq |-> q.seq, payload |-> p] :
             q \in PushSeqs,
             p \in [state : ChatStates, errorMessage : ErrorMessages]
                   \cup {NoPayload} }
    \cup { [type |-> "event", event |-> n, hasSeq |-> q.hasSeq, seq |-> q.seq,
            payload |-> p] :
             n \in {"health", "tick", "foo"}, q \in PushSeqs,
             p \in [kind : {"tool_start"}] \cup {NoPayload} }

\* Data that is not a frame: text JSON.parse throws on, the JSON text null,
\* and a JSON number.
Malformed ==
  {[type |-> "(not JSON)"], [type |-> "(JSON null)"], [type |-> "(JSON number)"]}

\* The canonical event the message listener builds for a frame it translates.
Canonical(f, payload) ==
  [type |-> "event", event |-> "agent", hasSeq |-> f.hasSeq, seq |-> f.seq,
   payload |-> payload]

\* The message listener's branch for eventName === "agent": the events
\* emitted and whether an exception escapes.
TranslateAgent(f) ==
  LET p == f.payload
  IN IF p # NoPayload /\ p.stream = "assistant"
     THEN IF p.delta \notin {"absent", ""}
          THEN [events |-> <<Canonical(f, [kind |-> "text_delta",
                                           content |-> p.delta])>>,
                raised |-> FALSE]
          ELSE [events |-> <<>>, raised |-> FALSE]
     ELSE IF p # NoPayload /\ p.kind # "absent"
     THEN [events |-> <<f>>, raised |-> FALSE]
     ELSE [events |-> <<>>, raised |-> FALSE]

\* Mutant of the chat branch: the canonical event is built without the seq.
TranslateChatDropsSeq(f) ==
  LET p == f.payload
      g == [f EXCEPT !.hasSeq = FALSE, !.seq = 0]
  IN IF p = NoPayload THEN [events |-> <<>>, raised |-> TRUE]
     ELSE IF p.state = "final"
     THEN [events |-> <<Canonical(g, [kind |-> "done",
                                      stopReason |-> "end_turn"])>>,
           raised |-> FALSE]
     ELSE IF p.state = "error"
     THEN [events |-> <<Canonical(g, [kind |-> "done",
                          stopReason |-> IF p.errorMessage = "absent"
                                         THEN "error" ELSE p.errorMessage])>>,
           raised |-> FALSE]
     ELSE IF p.state = "aborted"
     THEN [events |-> <<Canonical(g, [kind |-> "done",
                                      stopReason |-> "aborted"])>>,
           raised |-> FALSE]
     ELSE [events |-> <<>>, raised |-> FALSE]

\* The message listener's branch for eventName === "chat": p.state is read
\* without a check of p, which throws a TypeError when the payload is missing.
TranslateChat(f) ==
  LET p == f.payload
  IN IF p = NoPayload THEN [events |-> <<>>, raised |-> TRUE]
     ELSE IF p.state = "final"
     THEN [events |-> <<Canonical(f, [kind |-> "done",
                                      stopReason |-> "end_turn"])>>,
           raised |-> FALSE]
     ELSE IF p.state = "error"
     THEN [events |-> <<Canonical(f, [kind |-> "done",
                          stopReason |-> IF p.errorMessage = "absent"
                                         THEN "error" ELSE p.errorMessage])>>,
           raised |-> FALSE]
     ELSE IF p.state = "aborted"
     THEN [events |-> <<Canonical(f, [kind |-> "done",
                                      stopReason |-> "aborted"])>>,
           raised |-> FALSE]
     ELSE [events |-> <<>>, raised |-> FALSE]

\* The message listener's handling of a frame whose type is "event".
Translate(f) ==
  IF f.event = "agent" THEN TranslateAgent(f)
  ELSE IF f.event = "chat" THEN TranslateChat(f)
  ELSE IF f.event \notin {"health", "tick"}
  THEN [events |-> <<f>>, raised |-> FALSE]
  ELSE [events |-> <<>>, raised |-> FALSE]

\* The event frame is translated and the result is emitted to the handlers.
EventMessage(s, f) ==
  LET tr == Translate(f)
  IN [s EXCEPT !.emitted = tr.events # <<>>, !.events = tr.events,
               !.raised = tr.raised]

\* formatError(err)
FormatError(err) ==
  CASE err = "{message:boom}" -> "boom"
    [] err = "{code:7}" -> "{\"code\":7}"
    [] err = "absent" -> "undefined"
    [] OTHER -> err

\* Mutant of the res handling: a matching response empties the pending table.
NormalMessageClearsAll(s, f) ==
  IF f.type = "event" THEN EventMessage(s, f)
  ELSE IF f.type = "res" /\ f.id \in s.pendingRequests
  THEN [s EXCEPT !.pendingRequests = {},
                 !.commandTimers = @ \ {f.id},
                 !.outcome[f.id] = IF f.ok THEN "resolved" ELSE "rejected",
                 !.value = IF ~f.ok THEN FormatError(f.error)
                           ELSE IF f.payload = "absent" THEN "frame"
                           ELSE f.payload]
  ELSE s

\* Mutant of the res handling: the command's timer is not cleared.
NormalMessageKeepsTimer(s, f) ==
  IF f.type = "event" THEN EventMessage(s, f)
  ELSE IF f.type = "res" /\ f.id \in s.pendingRequests
  THEN [s EXCEPT !.pendingRequests = @ \ {f.id},
                 !.outcome[f.id] = IF f.ok THEN "resolved" ELSE "rejected",
                 !.value = IF ~f.ok THEN FormatError(f.error)
                           ELSE IF f.payload = "absent" THEN "frame"
                           ELSE f.payload]
  ELSE s

\* The message listener's second part ("normal message handling").
NormalMessage(s, f) ==
  IF f.type = "event" THEN EventMessage(s, f)
  ELSE IF f.type = "res" /\ f.id \in s.pendingRequests
  THEN [s EXCEPT !.pendingRequests = @ \ {f.id},
                 !.commandTimers = @ \ {f.id},
                 !.outcome[f.id] = IF f.ok THEN "resolved" ELSE "rejected",
                 !.value = IF ~f.ok THEN FormatError(f.error)
                           ELSE IF f.payload = "absent" THEN "frame"
                           ELSE f.payload]
  ELSE s

\* The message listener's handshake branch falls through to the normal
\* handling for every frame it does not return on.
HandshakeMessage(s, t, f) ==
  IF f.type = "event" /\ f.event = "connect.challenge"
  THEN SendHandshake(s, t, f.nonce)
  ELSE IF f.type = "res" /\ f.id = 0
  THEN IF f.ok THEN CompleteHandshake(s, t)
       ELSE Settle([s EXCEPT !.transports[t].stage = "failed",
                             !.transports[t].handshakeTimer = FALSE],
                   t, "Handshake rejected")
  ELSE NormalMessage(s, f)

\* setupMessageHandler's ws.on("message")
MessageHandler(s, t, f) ==
  IF f.type = "(not JSON)" THEN s
  ELSE IF f.type = "(JSON null)" THEN [s EXCEPT !.raised = TRUE]
  ELSE IF s.transports[t].stage = "hs" THEN HandshakeMessage(s, t, f)
  ELSE NormalMessage(s, f)

\* Mutant of the handshakeTimer callback: it rejects but leaves the socket open.
HandshakeTimerKeepsOpen(s, t, sync) ==
  LET s0 == [s EXCEPT !.transports[t].handshakeTimer = FALSE]
  IN IF s0.transports[t].stage = "hs"
     THEN Settle([s0 EXCEPT !.transports[t].stage = "failed"],
                 t, "Handshake timed out waiting for connect.ok")
     ELSE s0

\* setupMessageHandler's handshakeTimer callback
HandshakeTimerFired(s, t, sync) ==
  LET s0 == [s EXCEPT !.transports[t].handshakeTimer = FALSE]
  IN IF s0.transports[t].stage = "hs"
     THEN WsClose(Settle([s0 EXCEPT !.transports[t].stage = "failed"],
                         t, "Handshake timed out waiting for connect.ok"),
                  t, sync)
     ELSE s0

\* disconnect()
DisconnectBody(s, sync) ==
  LET s1 == RejectAllPending(
              StopHeartbeat(
                ClearReconnectTimer(
                  [s EXCEPT !.intentionalDisconnect = TRUE, !.autoAttempts = 0])),
              "disconnected")
      s2 == IF s1.ws # 0 THEN [WsClose(s1, s1.ws, sync) EXCEPT !.ws = 0] ELSE s1
  IN SetState(s2, "disconnected")

\* Mutant of sendCommand: the command id is allocated before the transport is
\* checked.
SendCommandCountsFirst(s) ==
  LET id == s.commandIdCounter + 1
  IN IF s.ws = 0 \/ s.transports[s.ws].readyState # "OPEN"
     THEN [s EXCEPT !.commandIdCounter = Min(id, MaxCmds),
                    !.result = "Not connected to Gateway"]
     ELSE [s EXCEPT !.commandIdCounter = id,
                    !.pendingRequests = @ \cup {id},
                    !.commandTimers = @ \cup {id},
                    !.outcome[id] = "pending",
                    !.sent = "cmd"]

\* sendCommand
SendCommandBody(s) ==
  IF s.ws = 0 \/ s.transports[s.ws].readyState # "OPEN"
  THEN [s EXCEPT !.result = "Not connected to Gateway"]
  ELSE LET id == s.commandIdCounter + 1
       IN [s EXCEPT !.commandIdCounter = id,
                    !.pendingRequests = @ \cup {id},
                    !.commandTimers = @ \cup {id},
                    !.outcome[id] = "pending",
                    !.sent = "cmd"]

\* Mutant of the command timer callback: it also gives the connection up.
CommandTimerTerminates(s, id) ==
  LET s1 == [s EXCEPT !.pendingRequests = @ \ {id}, !.commandTimers = @ \ {id},
                      !.outcome[id] = "timeout"]
  IN IF s1.ws = 0 THEN s1 ELSE WsTerminate(s1, s1.ws, FALSE)

\* Mutant of the command timer callback: it rejects but keeps the entry.
CommandTimerKeepsEntry(s, id) ==
  [s EXCEPT !.commandTimers = @ \ {id}, !.outcome[id] = "timeout"]

\* sendCommand's timer callback for the command id
CommandTimerFired(s, id) ==
  [s EXCEPT !.pendingRequests = @ \ {id}, !.commandTimers = @ \ {id},
            !.outcome[id] = "timeout"]

\* ------------------------------------------------------------ MessageRouter

Routers == 1..MaxRouters

\* The initial value of MessageRouter.lastSeq, which resetSequence() restores.
NoSeq == -1

\* event.payload.kind: the kinds route() switches on, and any other.
Kinds ==
  {"text_delta", "tool_start", "tool_result", "done", "a2ui", "diff", "other"}

\* The value null of DiffEvent.original (string | null).
Null == "(null)"

\* DiffEvent.original
Originals == {Null, "", "old"}

\* ---------------------------------------------------- a2uiV08 (converter)
\* JSON objects are records; a key an object does not have is not in the
\* record's domain. The glyphs of the source that are not ASCII are written
\* here as SEP (box-drawing vertical bar, with a space on either side), FILLED
\* (full block) and EMPTY (light shade).
SEP == " | "
FILLED == "#"
EMPTY == "-"

\* key in obj
Has(obj, key) == key \in DOMAIN obj

\* v === null || v === undefined, for a value v of any kind (values of
\* different kinds are compared through their printed forms).
IsNull(v) ==
  ToString(v) \in {ToString(Null), ToString([primitive |-> "null"]),
                   ToString([primitive |-> "undefined"])}

\* obj[key] is neither undefined nor null: what "obj[key] ?? other" tests,
\* and, for a field that holds a string or null, typeof obj[key] === "string"
\* and, for one that holds an array or null, Array.isArray(obj[key]).
Given(obj, key) == Has(obj, key) /\ ~IsNull(obj[key])

\* Boolean(v): null, undefined, "", 0 and false are falsy.
Truthy(v) ==
  /\ ~IsNull(v)
  /\ ToString(v) \notin {ToString(""), ToString(0), ToString(FALSE)}

\* The values of a batch that are not objects: null, undefined, a string, a
\* number. On each of them the operator "in" raises a TypeError.
Primitives ==
  {[primitive |-> "null"], [primitive |-> "undefined"],
   [primitive |-> "string"], [primitive |-> "number"]}

\* v && typeof v === "object"
IsObject(v) == ~IsNull(v) /\ ~Has(v, "primitive")

\* V08_ACTION_KEYS
V08_ACTION_KEYS ==
  {"surfaceUpdate", "beginRendering", "dataModelUpdate", "deleteSurface"}

\* Mutant of isV08Message: only surfaceUpdate is looked for.
IsV08MessageNarrow(obj) == Has(obj, "surfaceUpdate")

\* isV08Message(obj)
IsV08Message(obj) == \E key \in V08_ACTION_KEYS : Has(obj, key)

\* wrapValue(val) for the scalar properties of the nodes modelled here, which
\* are strings or null.
WrapValue(val) == [literalString |-> IF IsNull(val) THEN "" ELSE val]

\* nextId(prefix) when idCounter is n: the id; the counter becomes n + 1.
NextId(prefix, n) == prefix \o "_" \o ToString(n + 1)

\* makeV08Component(id, typeName, props, childIds); the component
\* {[typeName]: wrappedProps} is the pair of its name and its properties.
MakeV08Component(id, typeName, props, childIds) ==
  LET keys == DOMAIN props \ {"type", "id", "children"}
      all == IF childIds # <<>> THEN keys \cup {"children"} ELSE keys
  IN [id |-> id,
      component |->
        [name |-> typeName,
         props |-> [k \in all |->
                      IF k = "children" THEN [explicitList |-> childIds]
                      ELSE WrapValue(props[k])]]]

\* array.join(sep)
RECURSIVE Join(_, _)

\* Mutant of join: the elements are joined by a comma.
JoinComma(strs, sep) ==
  IF strs = <<>> THEN ""
  ELSE IF Len(strs) = 1 THEN strs[1]
  ELSE strs[1] \o "," \o Join(Tail(strs), sep)

Join(strs, sep) ==
  IF strs = <<>> THEN ""
  ELSE IF Len(strs) = 1 THEN strs[1]
  ELSE strs[1] \o sep \o Join(Tail(strs), sep)

\* string.repeat(count); a count that is not positive gives "".
RECURSIVE Repeat(_, _)
Repeat(glyph, count) ==
  IF count <= 0 THEN "" ELSE glyph \o Repeat(glyph, count - 1)

\* rawType.charAt(0).toUpperCase() + rawType.slice(1). A string is an atom
\* here, so the function is given by its graph: the names that begin with a
\* lower-case letter and what they become, and the names that begin with an
\* upper-case letter, which stay as they are. It is not defined on any other
\* name.
Capitalize(rawType) ==
  CASE rawType = "text" -> "Text"
    [] rawType = "table" -> "Table"
    [] rawType = "progress" -> "Progress"
    [] rawType = "column" -> "Column"
    [] rawType = "row" -> "Row"
    [] rawType = "codeblock" -> "Codeblock"
    [] rawType = "codeBlock" -> "CodeBlock"
    [] rawType = "title" -> "Title"
    [] rawType = "header" -> "Header"
    [] rawType = "page" -> "Page"
    [] rawType = "event" -> "Event"
    [] rawType = "res" -> "Res"
    [] rawType = "divider" -> "Divider"
    [] rawType = "button" -> "Button"
    [] rawType = "createSurface" -> "CreateSurface"
    [] rawType = "updateComponents" -> "UpdateComponents"
    [] rawType = "updateDataModel" -> "UpdateDataModel"
    [] rawType = "deleteSurface" -> "DeleteSurface"
    [] rawType = "surfaceUpdate" -> "SurfaceUpdate"
    [] rawType = "beginRendering" -> "BeginRendering"
    [] rawType = "foo" -> "Foo"
    [] rawType \in {"Text", "Table", "Progress", "Column", "Row", "Codeblock",
                    "CodeBlock", "Title", "Header", "Page", "Event", "Divider",
                    "Button"} -> rawType

\* tableToV08(raw, parentId) when idCounter is n; column labels are strings
\* and rows are arrays of strings and nulls.
TableToV08(raw, parentId, n) ==
  LET colLabels == IF Given(raw, "columns") THEN raw.columns ELSE <<>>
      rawRows == IF Given(raw, "rows") THEN raw.rows ELSE <<>>
      hasHeader == Len(colLabels) > 0
      headerId == NextId("hdr", n)
      divId == NextId("div", n + 1)
      n1 == IF hasHeader THEN n + 2 ELSE n
      header ==
        IF hasHeader
        THEN <<MakeV08Component(headerId, "Text",
                 [text |-> Join(colLabels, SEP), usageHint |-> "h3"], <<>>),
               MakeV08Component(divId, "Divider", <<>>, <<>>)>>
        ELSE <<>>
      cellTexts(row) ==
        [j \in 1..Len(row) |-> IF IsNull(row[j]) THEN "" ELSE row[j]]
      rowId(i) == NextId("row", n1 + i - 1)
      rows ==
        [i \in 1..Len(rawRows) |->
           MakeV08Component(rowId(i), "Text",
             [text |-> Join(cellTexts(rawRows[i]), SEP), usageHint |-> "body"],
             <<>>)]
      rowIds == (IF hasHeader THEN <<headerId, divId>> ELSE <<>>)
                  \o [i \in 1..Len(rawRows) |-> rowId(i)]
  IN [components |->
        header \o rows \o <<MakeV08Component(parentId, "Column", <<>>, rowIds)>>,
      rootId |-> parentId,
      n |-> n1 + Len(rawRows)]

\* Math.round(a / b) for integers a and b > 0: the nearest integer, a half
\* rounded up.
RoundDiv(a, b) == (2 * a + b) \div (2 * b)

\* (value / max) * 100 is NaN when value and max are both 0; NaN passes
\* through Math.round, Math.max and Math.min.
IsNaN(value, max) == value = 0 /\ max = 0

\* The quotients value / max for which the double (value / max) * 100 lies
\* just below a half although 100 * value / max is a half exactly: 23/40,
\* 29/200, 57/200 and 113/200 (0.145 * 100 is 14.499999999999998). For
\* every other quotient of integers between 0 and 1 the double is on the
\* same side of the half as the exact value.
BelowHalf(value, max) ==
  \/ 40 * value = 23 * max
  \/ 200 * value = 29 * max
  \/ 200 * value = 57 * max
  \/ 200 * value = 113 * max

\* Math.min(100, Math.max(0, Math.round((value / max) * 100))) when it is not
\* NaN; a division by 0 gives an infinity of the sign of value. The quotient
\* is rounded to a double before it is multiplied.
Pct(value, max) ==
  IF max = 0 THEN (IF value > 0 THEN 100 ELSE 0)
  ELSE LET exact == IF max > 0 THEN RoundDiv(100 * value, max)
                    ELSE RoundDiv(-100 * value, -max)
           r == IF BelowHalf(value, max) THEN exact - 1 ELSE exact
       IN IF r < 0 THEN 0 ELSE IF r > 100 THEN 100 ELSE r

\* progressToV08: pct, the label, and the numbers of filled and empty glyphs
\* of the bar. With pct NaN both repeat() counts are NaN, which repeat()
\* takes as 0.
ProgressParts(raw) ==
  LET value == IF Given(raw, "value") THEN raw.value ELSE 0
      max == IF Given(raw, "max") THEN raw.max ELSE 100
      nan == IsNaN(value, max)
      pct == IF nan THEN 0 ELSE Pct(value, max)
      barFilled == IF nan THEN 0 ELSE RoundDiv(pct, 5)
  IN [nan |-> nan,
      pct |-> pct,
      label |-> IF Has(raw, "label") /\ Truthy(raw.label) THEN raw.label
                ELSE (IF nan THEN "NaN" ELSE ToString(pct)) \o "%",
      filled |-> barFilled,
      empty |-> IF nan THEN 0 ELSE 20 - barFilled]

\* progressToV08(raw, id)
ProgressToV08(raw, id, n) ==
  LET pp == ProgressParts(raw)
  IN [components |->
        <<MakeV08Component(id, "Text",
            [text |-> pp.label \o "\n" \o Repeat(FILLED, pp.filled)
                        \o Repeat(EMPTY, pp.empty),
             usageHint |-> "body"], <<>>)>>,
      rootId |-> id, n |-> n]

\* codeBlockToV08(raw, id)
CodeBlockToV08(raw, id, n) ==
  LET code == IF Given(raw, "code") THEN raw.code
              ELSE IF Given(raw, "content") THEN raw.content
              ELSE IF Given(raw, "text") THEN raw.text ELSE ""
      lang == IF Given(raw, "language") THEN raw.language
              ELSE IF Given(raw, "lang") THEN raw.lang ELSE ""
      filename == IF Given(raw, "filename") THEN raw.filename ELSE ""
      label == IF Truthy(filename) THEN filename
               ELSE IF Truthy(lang) THEN "[" \o lang \o "]" ELSE ""
      text == IF Truthy(label) THEN label \o "\n" \o code ELSE code
  IN [components |->
        <<MakeV08Component(id, "Text", [text |-> text, usageHint |-> "body"],
                           <<>>)>>,
      rootId |-> id, n |-> n]

\* mapToV08Type(typeName, raw, id, childIds)
MapToV08Type(typeName, raw, id, childIds, n) ==
  CASE typeName = "Table" -> TableToV08(raw, id, n)
    [] typeName = "Progress" -> ProgressToV08(raw, id, n)
    [] typeName \in {"Codeblock", "CodeBlock"} -> CodeBlockToV08(raw, id, n)
    [] OTHER -> [components |-> <<MakeV08Component(id, typeName, raw, childIds)>>,
                 rootId |-> id, n |-> n]

\* extractComponents(raw) when idCounter is n (no caller passes assignedId):
\* the node's id is fixed first, then the children are extracted in order,
\* then the node itself is mapped.
RECURSIVE ExtractComponents(_, _)
RECURSIVE ExtractChildren(_, _)
ExtractComponents(raw, n) ==
  LET id == IF Given(raw, "id") THEN raw.id ELSE NextId("c", n)
      n1 == IF Given(raw, "id") THEN n ELSE n + 1
      rawType == IF Given(raw, "type") THEN raw.type ELSE "Text"
      typeName == Capitalize(rawType)
      Result(kids, mapped) ==
        [components |-> kids.components \o mapped.components,
         rootId |-> mapped.rootId, n |-> mapped.n]
      Map(kids) ==
        Result(kids, MapToV08Type(typeName, raw, id, kids.childIds, kids.n))
  IN Map(IF Given(raw, "children") THEN ExtractChildren(raw.children, n1)
         ELSE [components |-> <<>>, childIds |-> <<>>, n |-> n1])

\* Mutant of the loop over raw.children: the children's components are not
\* kept, their ids are.
ExtractChildrenKeepsIds(children, n) ==
  IF children = <<>> THEN [components |-> <<>>, childIds |-> <<>>, n |-> n]
  ELSE IF ~IsObject(Head(children)) THEN ExtractChildren(Tail(children), n)
  ELSE LET r == ExtractComponents(Head(children), n)
           rest == ExtractChildren(Tail(children), r.n)
       IN [components |-> rest.components,
           childIds |-> <<r.rootId>> \o rest.childIds,
           n |-> rest.n]

\* The loop of extractComponents over raw.children; a child that is not an
\* object is skipped.
ExtractChildren(children, n) ==
  IF children = <<>> THEN [components |-> <<>>, childIds |-> <<>>, n |-> n]
  ELSE IF ~IsObject(Head(children)) THEN ExtractChildren(Tail(children), n)
  ELSE LET Both(r, rest) ==
             [components |-> r.components \o rest.components,
              childIds |-> <<r.rootId>> \o rest.childIds,
              n |-> rest.n]
           Then(r) == Both(r, ExtractChildren(Tail(children), r.n))
       IN Then(ExtractComponents(Head(children), n))

\* The first of the keys under which obj holds a value that is neither
\* undefined nor null, or "" when there is none (obj.a ?? obj.b ?? obj.c).
FirstKey(obj, keys) ==
  IF \E i \in DOMAIN keys : Given(obj, keys[i])
  THEN keys[CHOOSE i \in DOMAIN keys :
              Given(obj, keys[i]) /\ \A j \in 1..(i - 1) : ~Given(obj, keys[j])]
  ELSE ""

\* The loop of convertOneMessage over rawComponents; a component that is
\* not an object is skipped.
RECURSIVE ExtractAll(_, _)
ExtractAll(rawComponents, n) ==
  IF rawComponents = <<>>
  THEN [components |-> <<>>, topLevelIds |-> <<>>, n |-> n]
  ELSE IF ~IsObject(Head(rawComponents))
  THEN ExtractAll(Tail(rawComponents), n)
  ELSE LET Both(r, rest) ==
             [components |-> r.components \o rest.components,
              topLevelIds |-> <<r.rootId>> \o rest.topLevelIds,
              n |-> rest.n]
           Then(r) == Both(r, ExtractAll(Tail(rawComponents), r.n))
       IN Then(ExtractComponents(Head(rawComponents), n))

\* The two operations that show components on a surface.
SurfaceOps(surfaceId, components, rootId) ==
  <<[surfaceUpdate |-> [surfaceId |-> surfaceId, components |-> components]],
    [beginRendering |-> [surfaceId |-> surfaceId, root |-> rootId]]>>

\* convertOneMessage's createSurface branch
ConvertCreateSurface(raw, n) ==
  LET cs == IF Has(raw, "createSurface") /\ Truthy(raw.createSurface)
            THEN raw.createSurface ELSE raw
      surfaceId ==
        IF Given(cs, "id") THEN cs.id
        ELSE IF Given(cs, "surface") /\ Given(cs.surface, "id")
        THEN cs.surface.id
        ELSE IF Given(cs, "surfaceId") THEN cs.surfaceId
        ELSE "main"
      single == FirstKey(cs, <<"component", "content", "body", "ui">>)
      rawComponents ==
        IF Given(cs, "components") THEN cs.components
        ELSE IF single # "" /\ IsObject(cs[single]) THEN <<cs[single]>>
        ELSE <<>>
      Wrap(all, rootId) ==
        [ops |-> SurfaceOps(surfaceId,
                   IF Len(all.topLevelIds) = 1 THEN all.components
                   ELSE all.components
                          \o <<MakeV08Component(rootId, "Column", <<>>,
                                                all.topLevelIds)>>,
                   rootId),
         n |-> IF Len(all.topLevelIds) = 1 THEN all.n ELSE all.n + 1,
         raised |-> FALSE]
      Root(all) ==
        Wrap(all, IF Len(all.topLevelIds) = 1 THEN all.topLevelIds[1]
                  ELSE NextId("root", all.n))
  IN IF rawComponents = <<>> THEN [ops |-> <<>>, n |-> n, raised |-> FALSE]
     ELSE Root(ExtractAll(rawComponents, n))

\* raw.type === "createSurface" || raw.createSurface
IsCreateSurface(raw) ==
  \/ Has(raw, "type") /\ raw.type = "createSurface"
  \/ Has(raw, "createSurface") /\ Truthy(raw.createSurface)

\* convertOneMessage(raw) when idCounter is n; raised says that it threw,
\* which isV08Message does when raw is not an object.
ConvertOneMessage(raw, n) ==
  IF ~IsObject(raw) THEN [ops |-> <<>>, n |-> n, raised |-> TRUE]
  ELSE IF IsV08Message(raw) THEN [ops |-> <<raw>>, n |-> n, raised |-> FALSE]
  ELSE IF IsCreateSurface(raw) THEN ConvertCreateSurface(raw, n)
  ELSE IF Given(raw, "type") /\ raw.type \notin {"event", "res", "req"}
  THEN LET Wrap(result, rootId) ==
             [ops |-> SurfaceOps("main",
                        result.components
                          \o <<MakeV08Component(rootId, "Column", <<>>,
                                                <<result.rootId>>)>>,
                        rootId),
              n |-> result.n + 1, raised |-> FALSE]
           Root(result) == Wrap(result, NextId("root", result.n))
       IN Root(ExtractComponents(raw, n))
  ELSE [ops |-> <<>>, n |-> n, raised |-> FALSE]

\* The loop over the messages that calls convertOneMessage on each; it ends
\* where convertOneMessage throws, and nothing is returned then.
RECURSIVE ConvertEach(_, _)
ConvertEach(msgs, n) ==
  IF msgs = <<>> THEN [ops |-> <<>>, n |-> n, raised |-> FALSE]
  ELSE LET Both(r, rest) ==
             [ops |-> IF rest.raised THEN <<>> ELSE r.ops \o rest.ops,
              n |-> rest.n, raised |-> rest.raised]
           Then(r) == IF r.raised THEN r
                      ELSE Both(r, ConvertEach(Tail(msgs), r.n))
       IN Then(ConvertOneMessage(Head(msgs), n))

\* A line of the JSONL text that JSON.parse throws on.
BadLine == [unparsable |-> TRUE]

\* The page/header/title objects of a bare batch.
IsMeta(msg) == Given(msg, "type") /\ msg.type \in {"page", "header", "title"}

\* String(msg.title ?? msg.text ?? msg.label ?? title)
TitleOf(msg, title) ==
  LET k == FirstKey(msg, <<"title", "text", "label">>)
  IN IF k # "" THEN msg[k] ELSE title

\* convertJsonlToV08's loop over a bare batch.
RECURSIVE ExtractBare(_, _, _)
ExtractBare(msgs, n, title) ==
  IF msgs = <<>>
  THEN [components |-> <<>>, topLevelIds |-> <<>>, n |-> n, title |-> title]
  ELSE IF IsMeta(Head(msgs))
  THEN ExtractBare(Tail(msgs), n, TitleOf(Head(msgs), title))
  ELSE LET Both(r, rest) ==
             [components |-> r.components \o rest.components,
              topLevelIds |-> <<r.rootId>> \o rest.topLevelIds,
              n |-> rest.n, title |-> rest.title]
           Then(r) == Both(r, ExtractBare(Tail(msgs), r.n, title))
       IN Then(ExtractComponents(Head(msgs), n))

\* Mutant of the bare batch: the title comes last in the root's child list.
ConvertBareBatchTitleLast(parsed) ==
  LET all == ExtractBare(parsed, 0, "Canvas")
      titleId == NextId("title", all.n)
      rootId == NextId("root", all.n + 1)
  IN IF all.topLevelIds = <<>>
     THEN [ops |-> <<>>, n |-> all.n, raised |-> FALSE]
     ELSE [ops |-> SurfaceOps("main",
                     all.components
                       \o <<MakeV08Component(titleId, "Text",
                              [text |-> all.title, usageHint |-> "h1"], <<>>),
                            MakeV08Component(rootId, "Column", <<>>,
                              all.topLevelIds \o <<titleId>>)>>,
                     rootId),
           n |-> all.n + 2, raised |-> FALSE]

\* convertJsonlToV08's last part: all the objects are bare components.
ConvertBareBatch(parsed) ==
  LET Wrap(all, titleId, rootId) ==
        IF all.topLevelIds = <<>>
        THEN [ops |-> <<>>, n |-> all.n, raised |-> FALSE]
        ELSE [ops |-> SurfaceOps("main",
                        all.components
                          \o <<MakeV08Component(titleId, "Text",
                                 [text |-> all.title, usageHint |-> "h1"], <<>>),
                               MakeV08Component(rootId, "Column", <<>>,
                                 <<titleId>> \o all.topLevelIds)>>,
                        rootId),
              n |-> all.n + 2, raised |-> FALSE]
      Ids(all) == Wrap(all, NextId("title", all.n), NextId("root", all.n + 1))
  IN Ids(ExtractBare(parsed, 0, "Canvas"))

\* parsed.every(isV08Message): "true", "false", or "throws" when a value that
\* is not an object is reached before the answer is known.
RECURSIVE EveryIsV08(_)
EveryIsV08(parsed) ==
  IF parsed = <<>> THEN "true"
  ELSE IF ~IsObject(Head(parsed)) THEN "throws"
  ELSE IF ~IsV08Message(Head(parsed)) THEN "false"
  ELSE EveryIsV08(Tail(parsed))

\* parsed.some((m) => isV08Message(m) || m.type === "createSurface" ||
\* m.createSurface): "true", "false" or "throws".
RECURSIVE SomeStructured(_)
SomeStructured(parsed) ==
  IF parsed = <<>> THEN "false"
  ELSE IF ~IsObject(Head(parsed)) THEN "throws"
  ELSE IF IsV08Message(Head(parsed)) \/ IsCreateSurface(Head(parsed)) THEN "true"
  ELSE SomeStructured(Tail(parsed))

\* convertJsonlToV08(jsonl) on the lines of jsonl that are not blank; the
\* counter is reset first.
ConvertJsonlToV08(lines) ==
  LET parsed == SelectSeq(lines, LAMBDA l : l # BadLine)
  IN IF parsed = <<>> THEN [ops |-> <<>>, n |-> 0, raised |-> FALSE]
     ELSE IF EveryIsV08(parsed) = "throws"
     THEN [ops |-> <<>>, n |-> 0, raised |-> TRUE]
     ELSE IF EveryIsV08(parsed) = "true"
     THEN [ops |-> parsed, n |-> 0, raised |-> FALSE]
     ELSE IF SomeStructured(parsed) = "throws"
     THEN [ops |-> <<>>, n |-> 0, raised |-> TRUE]
     ELSE IF SomeStructured(parsed) = "true"
     THEN ConvertEach(parsed, 0)
     ELSE ConvertBareBatch(parsed)

\* convertMessagesToV08(messages); the counter is reset first.
ConvertMessagesToV08(messages) == ConvertEach(messages, 0)

\* ------------------------------------------------ inputs of the converter

\* The node's own id field: two nodes may carry the same id, and an id may
\* look like a generated one.
NodeIds == {"x", "c_1"}

\* obj with the field id added.
WithId(obj, id) ==
  [k \in DOMAIN obj \cup {"id"} |-> IF k = "id" THEN id ELSE obj[k]]

\* Text nodes, with and without a type and an id; an id, a type and a text
\* may be null.
TextNodes ==
  {[type |-> "text", text |-> "a"], [text |-> "a"]}
    \cup {[type |-> "text", text |-> "a", id |-> i] : i \in NodeIds \cup {Null}}
    \cup {[type |-> Null, text |-> "a"], [type |-> "text", text |-> Null]}

\* The labels of the first k columns and the first k rows of a table; the
\* second row has a null cell.
ColumnLabels(k) == [i \in 1..k |-> "L" \o ToString(i)]
TableRows(k) ==
  [i \in 1..k |-> <<ToString(10 * i), IF i = 2 THEN Null ELSE ToString(10 * i + 1)>>]

\* Table nodes: every number of columns and rows up to the bounds, a table
\* without the two fields, and one with an id.
TableNodes ==
  {[type |-> "table", columns |-> ColumnLabels(c), rows |-> TableRows(r)] :
     c \in 0..MaxCols, r \in 0..MaxRows}
    \cup {[type |-> "table"],
          [type |-> "Table", id |-> "x", columns |-> ColumnLabels(MaxCols),
           rows |-> TableRows(MaxRows)]}

\* Progress nodes: value and max are integers or absent, the label is absent,
\* null, empty or a text; one node has the quotient 29/200.
ProgressValues == (-1..MaxValue) \cup {50, 150}
ProgressMaxes == {-2, 0, MaxValue + 1}
ProgressNodes ==
  LET base == {[type |-> "progress"]}
                \cup [type : {"progress"}, value : ProgressValues]
                \cup [type : {"progress"}, value : ProgressValues,
                      max : ProgressMaxes]
                \cup {[type |-> "progress", value |-> 29, max |-> 200]}
  IN base
       \cup {[k \in DOMAIN b \cup {"label"} |->
                IF k = "label" THEN l ELSE b[k]] : b \in base, l \in {"", "load"}}
       \cup {[type |-> "progress", value |-> 50, label |-> Null]}

\* Code block nodes: the code, the language and the file name under their
\* several keys, some of them null.
CodeNodes ==
  {[type |-> "codeblock", code |-> "x = 1", language |-> "py"],
   [type |-> "codeblock", code |-> "x = 1", lang |-> "py"],
   [type |-> "codeblock", content |-> "c", text |-> "t"],
   [type |-> "codeblock", code |-> Null, content |-> "c"],
   [type |-> "codeblock", code |-> "k", filename |-> Null, lang |-> "py"],
   [type |-> "codeblock", code |-> "k", language |-> Null, lang |-> "py"],
   [type |-> "codeBlock", code |-> "k", filename |-> "a.py", language |-> "py"]}

\* Nodes with children: the children are leaves.
KidNodes ==
  {[type |-> "text", text |-> "a"], [type |-> "text", text |-> "a", id |-> "x"],
   [type |-> "text", text |-> "a", id |-> "c_1"],
   [type |-> "table", columns |-> ColumnLabels(1), rows |-> TableRows(1)]}
ChildLists == UNION {[1..k -> KidNodes] : k \in 0..MaxChildren}
ContainerNodes ==
  {[type |-> "column", children |-> c] : c \in ChildLists}
    \cup {[type |-> "column", id |-> "x", children |-> c] : c \in ChildLists}
    \cup {[type |-> "column", id |-> Null,
           children |-> <<[type |-> "text", text |-> "a", id |-> Null]>>]}

\* The page/header/title objects: with a title, with a text, with neither.
MetaNodes ==
  {[type |-> "title", title |-> "T1"], [type |-> "header", text |-> "T2"],
   [type |-> "page"]}

\* Operations that are already structured.
V08Ops ==
  {[surfaceUpdate |-> [surfaceId |-> "s", components |-> <<>>]],
   [beginRendering |-> [surfaceId |-> "s", root |-> "r"]],
   [dataModelUpdate |-> [surfaceId |-> "s"]],
   [deleteSurface |-> [surfaceId |-> "s"]]}

\* createSurface messages in the shapes convertOneMessage accepts.
CreateSurfaces ==
  {[type |-> "createSurface"],
   [type |-> "createSurface", id |-> "s1", components |-> <<>>],
   [type |-> "createSurface", surfaceId |-> "s2",
    component |-> [type |-> "text", text |-> "a"]],
   [createSurface |-> [surface |-> [id |-> "s3"],
                       components |-> <<[type |-> "text", text |-> "a", id |-> "x"],
                                        [type |-> "table",
                                         columns |-> ColumnLabels(1),
                                         rows |-> TableRows(1)]>>]],
   [type |-> "createSurface", ui |-> [type |-> "column", children |->
                                        <<[type |-> "text", text |-> "a"]>>]]}

\* The objects the batches of several objects are made of.
BatchObjects ==
  {[type |-> "text", text |-> "a"], [text |-> "a"],
   [type |-> "text", text |-> "a", id |-> "x"],
   [type |-> "table", columns |-> ColumnLabels(1), rows |-> TableRows(1)],
   [type |-> "progress", value |-> 50],
   [type |-> "column", children |-> <<[type |-> "text", text |-> "a"]>>],
   [type |-> "event"]}
    \cup MetaNodes \cup V08Ops \cup CreateSurfaces

\* createSurface messages with a null where the surface's id is looked for,
\* and a title object whose title is null.
NullBatches ==
  {<<[type |-> "createSurface", id |-> Null, surfaceId |-> "s2",
      component |-> [type |-> "text", text |-> "a"]]>>,
   <<[type |-> "createSurface", surfaceId |-> Null,
      component |-> [type |-> "text", text |-> "a"]]>>,
   <<[type |-> "createSurface", id |-> Null,
      components |-> <<[type |-> "text", text |-> "a", id |-> Null]>>]>>,
   <<[type |-> "title", title |-> Null, text |-> "T3"],
     [type |-> "text", text |-> "a"]>>}

\* Every node on its own.
Nodes ==
  TextNodes \cup TableNodes \cup ProgressNodes \cup CodeNodes
    \cup ContainerNodes \cup MetaNodes

\* The batches: every sequence of up to MaxBatch batch objects, and every
\* node on its own.
Batches ==
  UNION {[1..k -> BatchObjects] : k \in 0..MaxBatch}
    \cup {<<o>> : o \in Nodes}
    \cup NullBatches

\* createSurface messages whose components are not all objects, and a
\* column with a child that is not an object.
OddSurfaces ==
  {[type |-> "createSurface", components |-> <<[primitive |-> "null"]>>],
   [type |-> "createSurface", component |-> [primitive |-> "string"]],
   [type |-> "createSurface",
    components |-> <<[primitive |-> "number"], [type |-> "text", text |-> "a"]>>],
   [type |-> "column",
    children |-> <<[primitive |-> "null"], [type |-> "text", text |-> "a"]>>]}

\* Batches with a value that is not an object: alone, after a component,
\* after a structured operation; and the messages of OddSurfaces alone.
OddBatches ==
  {<<v>> : v \in Primitives \cup OddSurfaces}
    \cup {<<[type |-> "text", text |-> "a"], [primitive |-> "null"]>>,
          <<[deleteSurface |-> [surfaceId |-> "s"]], [primitive |-> "string"]>>}

\* The lines of a JSONL text: batches, and batches with a line that does not
\* parse.
JsonlTexts ==
  Batches \cup OddBatches
    \cup {<<BadLine>>, <<BadLine, [type |-> "text", text |-> "a"]>>}

\* ------------------------------------------------- MessageRouter.route

\* A2UIMessage: an object with a type.
A2UIMessages ==
  {[type |-> "createSurface", surfaceId |-> "s2",
    component |-> [type |-> "text", text |-> "a"]],
   [type |-> "updateComponents"]}

\* AgentEventPayload: a diff payload carries path, original and modified, an
\* a2ui payload carries a message, the other payloads are told apart by their
\* kind only.
AgentEventPayloads ==
  [kind : Kinds \ {"diff", "a2ui"}]
    \cup [kind : {"diff"}, path : {"a.ts"}, original : Originals,
          modified : {"new"}]
    \cup [kind : {"a2ui"}, payload : A2UIMessages]

\* GatewayEvent: seq is optional (hasSeq says whether it is defined).
Events ==
  [hasSeq : {FALSE}, seq : {0}, payload : AgentEventPayloads]
    \cup [hasSeq : {TRUE}, seq : NoSeq..MaxSeq, payload : AgentEventPayloads]

\* a2ui payloads that are not of the declared type: without a message, with
\* a message that is not an object, with an object of no known shape, with a
\* createSurface whose components are not objects.
OddA2uiPayloads ==
  {[kind |-> "a2ui"]}
    \cup [kind : {"a2ui"},
          payload : Primitives
                      \cup {[type |-> "event"], [text |-> "a"],
                            [type |-> "createSurface",
                             component |-> [primitive |-> "string"]],
                            [type |-> "createSurface",
                             components |-> <<[primitive |-> "null"]>>]}]

\* Events that carry such a payload.
OddEvents ==
  [hasSeq : {FALSE}, seq : {0}, payload : OddA2uiPayloads]
    \cup [hasSeq : {TRUE}, seq : NoSeq..MaxSeq, payload : OddA2uiPayloads]

\* payload.original ?? ""
OrEmpty(v) == IF IsNull(v) THEN "" ELSE v

\* payload.payload, undefined when the payload has no such field.
PayloadOf(payload) ==
  IF Has(payload, "payload") THEN payload.payload
  ELSE [primitive |-> "undefined"]

\* convertMessagesToV08([payload.payload]) as route() calls it.
V08Of(payload) == ConvertMessagesToV08(<<PayloadOf(payload)>>)

\* route()'s switch raises: payload.kind is read from a missing payload, or
\* the converter throws in the a2ui case.
Throws(payload) ==
  \/ payload = NoPayload
  \/ payload.kind = "a2ui" /\ V08Of(payload).raised

\* Mutant of route()'s switch: an a2ui event is also posted to the chat.
DispatchA2uiToChat(payload) ==
  CASE payload.kind \in {"text_delta", "tool_start", "tool_result", "done"}
         -> <<[sink |-> "chat.postEvent", args |-> <<payload>>]>>
    [] payload.kind = "a2ui"
         -> <<[sink |-> "chat.postEvent", args |-> <<payload>>],
              [sink |-> "canvas.postV08Messages", args |-> <<V08Of(payload).ops>>]>>
    [] payload.kind = "diff"
         -> <<[sink |-> "chat.postEvent", args |-> <<payload>>],
              [sink |-> "bridge.showDiff",
               args |-> <<OrEmpty(payload.original), payload.modified,
                          payload.path>>]>>
    [] OTHER -> <<>>

\* Mutant of route()'s switch: showDiff receives payload.original as it is.
DispatchRawOriginal(payload) ==
  CASE payload.kind \in {"text_delta", "tool_start", "tool_result", "done"}
         -> <<[sink |-> "chat.postEvent", args |-> <<payload>>]>>
    [] payload.kind = "a2ui"
         -> <<[sink |-> "canvas.postV08Messages", args |-> <<V08Of(payload).ops>>]>>
    [] payload.kind = "diff"
         -> <<[sink |-> "chat.postEvent", args |-> <<payload>>],
              [sink |-> "bridge.showDiff",
               args |-> <<payload.original, payload.modified, payload.path>>]>>
    [] OTHER -> <<>>

\* route()'s switch on payload.kind: the sink calls with their arguments, in
\* order.
Dispatch(payload) ==
  CASE payload.kind \in {"text_delta", "tool_start", "tool_result", "done"}
         -> <<[sink |-> "chat.postEvent", args |-> <<payload>>]>>
    [] payload.kind = "a2ui"
         -> <<[sink |-> "canvas.postV08Messages", args |-> <<V08Of(payload).ops>>]>>
    [] payload.kind = "diff"
         -> <<[sink |-> "chat.postEvent", args |-> <<payload>>],
              [sink |-> "bridge.showDiff",
               args |-> <<OrEmpty(payload.original), payload.modified,
                          payload.path>>]>>
    [] OTHER -> <<>>

\* Mutant of route(): the gate compares with < instead of <=.
RouteBodyStrict(ls, e) ==
  IF e.hasSeq /\ e.seq < ls
  THEN [lastSeq |-> ls, passed |-> FALSE]
  ELSE [lastSeq |-> IF e.hasSeq THEN e.seq ELSE ls, passed |-> TRUE]

\* Mutant of route(): an event that passes the gate does not become the
\* watermark.
RouteBodyKeepsWatermark(ls, e) ==
  IF e.hasSeq /\ e.seq <= ls
  THEN [lastSeq |-> ls, passed |-> FALSE]
  ELSE [lastSeq |-> ls, passed |-> TRUE]

\* route(event) up to its switch, on a router whose lastSeq is ls: the
\* event is dropped, or it passes and its seq, if it has one, becomes lastSeq.
RouteBody(ls, e) ==
  IF e.hasSeq /\ e.seq <= ls
  THEN [lastSeq |-> ls, passed |-> FALSE]
  ELSE [lastSeq |-> IF e.hasSeq THEN e.seq ELSE ls, passed |-> TRUE]

\* route()'s switch on an event that passed: the sink calls it makes; raised
\* says that an exception left it, which happens after lastSeq was assigned
\* and before any sink is called.
Switch(payload) ==
  [calls |-> IF Throws(payload) THEN <<>> ELSE Dispatch(payload),
   raised |-> Throws(payload)]

\* Mutant of resetSequence(): lastSeq is left as it is.
ResetSequenceKeeps(ls) == ls

\* resetSequence() on a router whose lastSeq is ls
ResetSequenceBody(ls) == NoSeq

\* activate()'s onStateChange observer called with the state st
StateObserver(o, st) ==
  [o EXCEPT !.reconnected =
              IF /\ st = "connected"
                 /\ o.hasConnectedBefore
                 /\ o.previousState \in {"disconnected", "error"}
              THEN @ + 1 ELSE @,
            !.hasConnectedBefore = @ \/ st = "connected",
            !.previousState = st]

\* setState's loop over stateHandlers, for the states sts notified in one
\* step, in order.
RECURSIVE StateHandlers(_, _)
StateHandlers(o, sts) ==
  IF sts = <<>> THEN o
  ELSE StateHandlers(StateObserver(o, Head(sts)), Tail(sts))

\* The observer as activate() registers it, and a client without it.
Registered ==
  [registered |-> TRUE, previousState |-> "disconnected",
   hasConnectedBefore |-> FALSE, reconnected |-> 0]
Unregistered == [Registered EXCEPT !.registered = FALSE]

\* ------------------------------------------------------------------- actions

NextPath(op) ==
  IF path = 0 /\ op = "connect" THEN 1
  ELSE IF path = 1 /\ op = "open" THEN 2
  ELSE IF path = 2 /\ op = "connect.challenge" THEN 3
  ELSE IF path = 3 /\ op = "connect.ok" THEN 4
  ELSE 5

\* The step's result s becomes the next state; op and t say which callback ran.
Apply(s, op) ==
  /\ s.timers <= MaxTimers
  /\ state' = s.state
  /\ ws' = s.ws
  /\ intentionalDisconnect' = s.intentionalDisconnect
  /\ deviceKeys' = s.deviceKeys
  /\ reconnectAttempt' = s.reconnectAttempt
  /\ reconnectTimer' = s.reconnectTimer
  /\ pendingRequests' = s.pendingRequests
  /\ commandTimers' = s.commandTimers
  /\ commandIdCounter' = s.commandIdCounter
  /\ heartbeatInterval' = s.heartbeatInterval
  /\ heartbeatTimeout' = s.heartbeatTimeout
  /\ transports' = s.transports
  /\ timers' = s.timers
  /\ outcome' = s.outcome
  /\ connectPromise' = s.connectPromise
  /\ connectT' = s.connectT
  /\ autoAttempts' = s.autoAttempts
  /\ counting' = counting
  /\ out' = [notified |-> s.notified, sent |-> s.sent, device |-> s.device,
             emitted |-> s.emitted, connectError |-> s.connectError,
             value |-> s.value, result |-> s.result, delay |-> s.delay,
             events |-> s.events, raised |-> s.raised]
  /\ path' = NextPath(op)
  /\ observed' = IF NextPath(op) \in 1..4 THEN observed \o s.notified ELSE <<>>
  /\ observer' = IF observer.registered
                 THEN StateHandlers([observer EXCEPT !.reconnected = 0],
                                    s.notified)
                 ELSE observer
  /\ UNCHANGED <<routerVars, convVars, hostVars>>

InitBut(c) ==
  /\ state = "disconnected"
  /\ ws = 0
  /\ intentionalDisconnect = FALSE
  /\ deviceKeys = FALSE
  /\ reconnectAttempt = 0
  /\ reconnectTimer = FALSE
  /\ pendingRequests = {}
  /\ commandTimers = {}
  /\ commandIdCounter = 0
  /\ heartbeatInterval = 0
  /\ heartbeatTimeout = FALSE
  /\ transports = [t \in Slots |-> NoTransport]
  /\ timers = 0
  /\ outcome = [i \in CmdIds |-> "unsent"]
  /\ connectPromise = "none"
  /\ connectT = 0
  /\ autoAttempts = 0
  /\ counting = c
  /\ out = [notified |-> <<>>, sent |-> "none", device |-> "none",
            emitted |-> FALSE, connectError |-> "none", value |-> "none",
            result |-> "none", delay |-> 0, events |-> <<>>, raised |-> FALSE]
  /\ path = 0
  /\ observed = <<>>
  /\ lastSeq = [r \in Routers |-> NoSeq]
  /\ routed = [router |-> 0, passed |-> FALSE, calls |-> <<>>, was |-> "no",
               raised |-> FALSE]
  /\ first = [r \in Routers |-> "fresh"]
  /\ idCounter = 0
  /\ canvas = [panel |-> 0, webviewReady |-> FALSE, pendingMessages |-> <<>>,
               panels |-> 0, handed |-> <<>>, posted |-> <<>>]
  /\ nodeConn = [readyState |-> "NONE", listening |-> FALSE,
                 invokeHandler |-> FALSE, received |-> <<>>, awaiting |-> {},
                 sent |-> <<>>, unhandled |-> 0]

InitWith(c) ==
  /\ InitBut(c)
  /\ observer = Unregistered
  /\ conv = [fn |-> "none", input |-> <<>>, output |-> <<>>, raised |-> FALSE]

\* new GatewayClient()
Init == InitWith(FALSE)

\* connect(url, token, deviceKeys) with a non-empty url; keys says whether
\* deviceKeys is given.
ConnectWith(keys) ==
  /\ FreeSlots(Cur) # {}
  /\ Apply(DoConnect([Cur EXCEPT !.deviceKeys = keys,
                                 !.intentionalDisconnect = FALSE,
                                 !.reconnectAttempt = 0,
                                 !.autoAttempts = 0], TRUE),
           "connect")

\* connect(url, token)
Connect == ConnectWith(FALSE)

\* connect(url, token, deviceKeys)
ConnectKeys == ConnectWith(TRUE)

\* disconnect()
DisconnectWith(sync) ==
  /\ (ws = 0 => sync)
  /\ Apply(DisconnectBody(Cur, sync), "disconnect")

Disconnect == \E sync \in BOOLEAN : DisconnectWith(sync)

\* sendCommand(command, params), through chatSend, sessionList, ...; at most
\* n commands are sent.
SendCommandUpTo(n) ==
  /\ (ws # 0 /\ transports[ws].readyState = "OPEN") => commandIdCounter < n
  /\ Apply(SendCommandBody(Cur), "sendCommand")

SendCommand == SendCommandUpTo(MaxCmds)

SendCommandMany == SendCommandUpTo(MaxOutstanding)

\* The 30 s timer of the pending command id fires.
CommandTimeoutAt(id) ==
  /\ id \in commandTimers
  /\ Apply(CommandTimerFired(Cur, id), "commandTimeout")

CommandTimeout == \E id \in CmdIds : CommandTimeoutAt(id)

\* The WebSocket's open event.
TransportOpen ==
  \E t \in Slots :
    /\ transports[t].stage = "pre"
    /\ transports[t].readyState = "CONNECTING"
    /\ Apply(OnOpen(Cur, t), "open")

\* The WebSocket's error event: onError before the socket opened, the
\* ws.on("error") listener of setupMessageHandler after. The socket that
\* emitted error is destroyed: only its close event follows.
TransportErrorAt(t) ==
  /\ transports[t].io
  /\ IF transports[t].stage = "pre"
     THEN Apply(OnError(Cur, t), "error")
     ELSE Apply(SetState([Cur EXCEPT !.transports[t].readyState = "CLOSING",
                                     !.transports[t].io = FALSE],
                         "error"), "error")

TransportError == \E t \in Slots : TransportErrorAt(t)

\* The WebSocket's close event.
TransportClose ==
  \E t \in Slots :
    /\ transports[t].stage # "none"
    /\ Apply(CloseEvent(Cur, t), "close")

\* The WebSocket's message event.
TransportMessageAt(t, f) ==
  /\ transports[t].stage \in {"hs", "ok", "failed"}
  /\ transports[t].io
  /\ Apply(MessageHandler(Cur, t, f),
           IF f.type = "event" THEN f.event
           ELSE IF f.type # "res" THEN "data"
           ELSE IF f.id = 0 THEN (IF f.ok THEN "connect.ok" ELSE "connect.error")
           ELSE "res")

TransportMessage == \E t \in Slots, f \in Frames : TransportMessageAt(t, f)

\* The WebSocket's message event for a push frame or for data that is not a
\* frame.
TransportPush ==
  \E t \in Slots, f \in PushFrames \cup Malformed : TransportMessageAt(t, f)

\* The WebSocket's pong event (the listener startHeartbeat attaches): a
\* socket emits it while it is OPEN or CLOSING and not destroyed, and the
\* listener does not look at which socket it is attached to.
TransportPong ==
  \E t \in Slots :
    /\ transports[t].stage = "ok"
    /\ transports[t].readyState \in {"OPEN", "CLOSING"}
    /\ transports[t].io
    /\ Apply([Cur EXCEPT !.heartbeatTimeout = FALSE], "pong")

\* The 10 s handshake timer fires.
HandshakeTimeoutAt(t, sync) ==
  /\ transports[t].handshakeTimer
  /\ Apply(HandshakeTimerFired(Cur, t, sync), "handshakeTimeout")

HandshakeTimeout == \E t \in Slots, sync \in BOOLEAN : HandshakeTimeoutAt(t, sync)

\* A reconnect timeout fires.
ReconnectTimerFires ==
  /\ timers > 0
  /\ LET s == [Cur EXCEPT !.timers = @ - 1, !.reconnectTimer = FALSE]
     IN IF intentionalDisconnect
        THEN Apply(s, "reconnect")
        ELSE /\ FreeSlots(Cur) # {}
             /\ counting => autoAttempts < MaxAuto
             /\ Apply(DoConnect([s EXCEPT !.autoAttempts =
                                            IF counting THEN @ + 1 ELSE @],
                                FALSE),
                      "reconnect")

\* The 30 s heartbeat interval ticks. The previous probe's 10 s timeout has
\* fired or was cleared by then.
HeartbeatTick ==
  /\ heartbeatInterval # 0
  /\ ~heartbeatTimeout
  /\ IF transports[heartbeatInterval].readyState # "OPEN"
     THEN Apply(StopHeartbeat(Cur), "heartbeat")
     ELSE Apply([Cur EXCEPT !.heartbeatTimeout = TRUE, !.sent = "ping"],
                "heartbeat")

\* The 10 s heartbeat timeout fires: no pong came.
HeartbeatTimeoutFires ==
  \E sync \in BOOLEAN :
    /\ heartbeatTimeout
    /\ Apply(WsTerminate(StopHeartbeat(Cur), heartbeatInterval, sync),
             "heartbeatTimeout")

Next ==
  \/ Connect
  \/ Disconnect
  \/ SendCommand
  \/ CommandTimeout
  \/ TransportOpen
  \/ TransportError
  \/ TransportClose
  \/ TransportMessage
  \/ TransportPong
  \/ HandshakeTimeout
  \/ ReconnectTimerFires
  \/ HeartbeatTick
  \/ HeartbeatTimeoutFires

Spec == Init /\ [][Next]_vars

\* The session of a caller that calls connect() once and then leaves the
\* client alone; the automatic attempts are counted.
InitRetry == InitWith(TRUE)

ConnectOnce == path = 0 /\ Connect

NextRetry ==
  \/ ConnectOnce
  \/ SendCommand
  \/ CommandTimeout
  \/ TransportOpen
  \/ TransportError
  \/ TransportClose
  \/ TransportMessage
  \/ TransportPong
  \/ HandshakeTimeout
  \/ ReconnectTimerFires
  \/ HeartbeatTick
  \/ HeartbeatTimeoutFires

SpecRetry == InitRetry /\ [][NextRetry]_vars

\* The session of a caller that connects once and sends several commands.
NextCmds ==
  \/ ConnectOnce
  \/ Disconnect
  \/ SendCommandMany
  \/ CommandTimeout
  \/ TransportOpen
  \/ TransportError
  \/ TransportClose
  \/ TransportMessage
  \/ TransportPong
  \/ HandshakeTimeout
  \/ ReconnectTimerFires
  \/ HeartbeatTick
  \/ HeartbeatTimeoutFires

SpecCmds == Init /\ [][NextCmds]_vars

\* The same session; a timer that is set and not cleared fires.
SpecCmdsFair ==
  SpecCmds /\ \A id \in CmdIds : WF_vars(CommandTimeoutAt(id))

\* ---- NodeConnection.handleInvoke

\* payload.id, payload.nodeId, payload.command and payload.paramsJSON of a
\* node.invoke.request event; the third text is not JSON (the parse error is
\* caught and the handler is called with undefined params).
RequestIds == 1..MaxRequests
InvokeNodeIds == {"n1", "n2"}
ParamsJSONs == {Null, "{\"a\":1}", "{bad"}
InvokePayloads ==
  [id : RequestIds, nodeId : InvokeNodeIds, command : {"canvas.present"},
   paramsJSON : ParamsJSONs]

\* What the invoke handler's promise settles with: a result with a payload,
\* without one, with an error, a result whose payload JSON.stringify throws
\* on (a cyclic object, a BigInt), or a rejection.
HandlerResults ==
  {[ok |-> TRUE, payload |-> "{x:1}", error |-> ""],
   [ok |-> TRUE, payload |-> "undefined", error |-> ""],
   [ok |-> FALSE, payload |-> "undefined", error |-> "denied"],
   [ok |-> TRUE, payload |-> "cyclic", error |-> ""]}
HandlerOutcomes ==
  [settled : {"resolved"}, result : HandlerResults]
    \cup {[settled |-> "rejected", err |-> "Error: boom"]}

\* The catch clause: result = { ok: false, error: String(err) }
Caught(err) == [ok |-> FALSE, payload |-> "undefined", error |-> err]

\* JSON.stringify(result.payload)
Stringify(v) == IF v = "{x:1}" THEN "{\"x\":1}" ELSE "(throws)"

\* The params of the node.invoke.result request built from result.
ResultParams(payload, result) ==
  [id |-> payload.id,
   nodeId |-> payload.nodeId,
   ok |-> result.ok,
   payloadJSON |-> IF result.payload # "undefined"
                   THEN Stringify(result.payload) ELSE Null,
   error |-> IF result.error # "" THEN [message |-> result.error]
             ELSE [primitive |-> "null"]]

\* handleInvoke from the construction of the response on: JSON.stringify
\* throws inside the async function, which rejects its promise; the request
\* is sent only on an open socket.
Respond(n, payload, result) ==
  IF result.payload = "cyclic"
  THEN [n EXCEPT !.unhandled = @ + 1]
  ELSE IF n.readyState = "OPEN"
  THEN [n EXCEPT !.sent = Append(@, ResultParams(payload, result))]
  ELSE n

\* handleInvoke up to its await: payload.id of a missing payload throws;
\* without a handler and when the handler throws in the call the response
\* follows in the same step; otherwise the handler's promise is awaited.
\* Every call is one more entry of received, whatever id it carries; the
\* calls whose handler has not settled are the indices in awaiting.
HandleInvoke(n, payload, call) ==
  IF payload = NoPayload THEN [n EXCEPT !.unhandled = @ + 1]
  ELSE LET m == [n EXCEPT !.received = Append(@, payload)]
       IN IF ~n.invokeHandler
          THEN Respond(m, payload,
                       [ok |-> FALSE, payload |-> "undefined",
                        error |-> "no handler for canvas.present"])
          ELSE IF call = "throws"
          THEN Respond(m, payload, Caught("Error: boom"))
          ELSE [m EXCEPT !.awaiting = @ \cup {Len(m.received)}]

\* handleInvoke after its await: the handler's promise of the i-th call has
\* settled.
HandlerSettled(n, i, o) ==
  LET m == [n EXCEPT !.awaiting = @ \ {i}]
  IN IF o.settled = "rejected" THEN Respond(m, n.received[i], Caught(o.err))
     ELSE Respond(m, n.received[i], o.result)

\* onInvoke(handler) and the dispose() of what it returns
OnInvoke ==
  /\ nodeConn' = [nodeConn EXCEPT !.invokeHandler = TRUE]
  /\ UNCHANGED <<clientVars, routerVars, convVars, canvas>>

DisposeInvoke ==
  /\ nodeConn' = [nodeConn EXCEPT !.invokeHandler = FALSE]
  /\ UNCHANGED <<clientVars, routerVars, convVars, canvas>>

\* connect(url) on a new NodeConnection: new WebSocket(url)
NodeConnect ==
  /\ nodeConn.readyState = "NONE"
  /\ nodeConn' = [nodeConn EXCEPT !.readyState = "CONNECTING"]
  /\ UNCHANGED <<clientVars, routerVars, convVars, canvas>>

\* The WebSocket's open event: setupHandler attaches the message listener.
NodeOpen ==
  /\ nodeConn.readyState = "CONNECTING"
  /\ nodeConn' = [nodeConn EXCEPT !.readyState = "OPEN", !.listening = TRUE]
  /\ UNCHANGED <<clientVars, routerVars, convVars, canvas>>

\* disconnect(), and the handshake timer's ws.close(): the socket is CLOSING
\* until its close event.
NodeDisconnect ==
  /\ nodeConn.readyState \in {"CONNECTING", "OPEN"}
  /\ nodeConn' = [nodeConn EXCEPT !.readyState = "CLOSING"]
  /\ UNCHANGED <<clientVars, routerVars, convVars, canvas>>

\* The WebSocket's close event, after a close() or from the peer.
NodeClose ==
  /\ nodeConn.readyState \in {"CONNECTING", "OPEN", "CLOSING"}
  /\ nodeConn' = [nodeConn EXCEPT !.readyState = "CLOSED"]
  /\ UNCHANGED <<clientVars, routerVars, convVars, canvas>>

\* The message listener receives a node.invoke.request event with the
\* payload p; call says whether the handler throws in the call. The listener
\* looks neither at the socket's readyState nor at the ids it has seen: it
\* calls handleInvoke for every such frame handed to it once it is attached,
\* a frame that arrives after disconnect() and one that repeats an id
\* included.
InvokeRequestAt(p, call) ==
  /\ nodeConn.listening
  /\ nodeConn.unhandled < MaxUnhandled
  /\ p # NoPayload => Len(nodeConn.received) < MaxInvokes
  /\ nodeConn' = HandleInvoke(nodeConn, p, call)
  /\ UNCHANGED <<clientVars, routerVars, convVars, canvas>>

InvokeRequest ==
  \E p \in InvokePayloads \cup {NoPayload}, call \in {"throws", "returns"} :
    InvokeRequestAt(p, call)

\* The promise of the i-th handler call settles.
HandlerSettlesAt(i, o) ==
  /\ i \in nodeConn.awaiting
  /\ nodeConn.unhandled < MaxUnhandled
  /\ nodeConn' = HandlerSettled(nodeConn, i, o)
  /\ UNCHANGED <<clientVars, routerVars, convVars, canvas>>

HandlerSettles ==
  \E i \in 1..MaxInvokes, o \in HandlerOutcomes : HandlerSettlesAt(i, o)

NextNode ==
  \/ OnInvoke
  \/ DisposeInvoke
  \/ NodeConnect
  \/ NodeOpen
  \/ NodeDisconnect
  \/ NodeClose
  \/ InvokeRequest
  \/ HandlerSettles

SpecNode == Init /\ [][NextNode]_vars

\* The session of a caller that calls connect() once, sends no command and
\* receives push frames of every shape.
NextEvents ==
  \/ ConnectOnce
  \/ TransportOpen
  \/ TransportError
  \/ TransportClose
  \/ TransportMessage
  \/ TransportPush
  \/ HandshakeTimeout
  \/ ReconnectTimerFires

SpecEvents == Init /\ [][NextEvents]_vars

\* The same session of the client activate() constructs, with the state
\* observer registered.
InitObserver ==
  /\ InitBut(FALSE)
  /\ conv = [fn |-> "none", input |-> <<>>, output |-> <<>>, raised |-> FALSE]
  /\ observer = Registered

SpecObserver == InitObserver /\ [][NextEvents]_vars

\* convertJsonlToV08(jsonl) on the text drawn; no line of a text parses to
\* undefined.
ConvertJsonl ==
  /\ conv.fn = "none"
  /\ \A i \in DOMAIN conv.input : conv.input[i] # [primitive |-> "undefined"]
  /\ LET r == ConvertJsonlToV08(conv.input)
     IN /\ idCounter' = r.n
        /\ conv' = [conv EXCEPT !.fn = "convertJsonlToV08", !.output = r.ops,
                                !.raised = r.raised]
  /\ UNCHANGED <<clientVars, routerVars, hostVars>>

\* convertMessagesToV08(messages) on the batch drawn
ConvertMessages ==
  /\ conv.fn = "none"
  /\ conv.input \in Batches \cup OddBatches
  /\ LET r == ConvertMessagesToV08(conv.input)
     IN /\ idCounter' = r.n
        /\ conv' = [conv EXCEPT !.fn = "convertMessagesToV08", !.output = r.ops,
                                !.raised = r.raised]
  /\ UNCHANGED <<clientVars, routerVars, hostVars>>

\* The converter alone: a batch is drawn and one of the two exported
\* functions converts it.
InitConvert ==
  /\ InitBut(FALSE)
  /\ observer = Unregistered
  /\ conv \in [fn : {"none"}, input : JsonlTexts, output : {<<>>},
                raised : {FALSE}]

NextConvert == ConvertJsonl \/ ConvertMessages

SpecConvert == InitConvert /\ [][NextConvert]_vars

\* ----------------------------------------------------------- CanvasPanel
\* c is the record of the panel's fields; a batch is posted to the webview
\* of the panel c.panel.

\* reveal(): a panel is created unless there is one.
Reveal(c) ==
  IF c.panel # 0 THEN c
  ELSE [c EXCEPT !.panel = c.panels + 1, !.panels = @ + 1]

\* Mutant of postV08Messages: a batch that arrives while there is no panel
\* is not buffered.
PostV08MessagesDropsFirst(c, messages) ==
  IF messages = <<>> THEN c
  ELSE IF c.panel # 0 /\ c.webviewReady
  THEN [c EXCEPT !.posted = Append(@, [panel |-> c.panel, messages |-> messages])]
  ELSE IF c.panel = 0 THEN Reveal(c)
  ELSE [c EXCEPT !.pendingMessages = Append(@, messages)]

\* postV08Messages(messages)
PostV08Messages(c, messages) ==
  IF messages = <<>> THEN c
  ELSE IF c.panel # 0 /\ c.webviewReady
  THEN [c EXCEPT !.posted = Append(@, [panel |-> c.panel, messages |-> messages])]
  ELSE IF c.panel = 0
  THEN Reveal([c EXCEPT !.pendingMessages = Append(@, messages)])
  ELSE [c EXCEPT !.pendingMessages = Append(@, messages)]

\* The onDidReceiveMessage listener on the message {type: "ready"}.
ReadyHandler(c) ==
  [c EXCEPT !.webviewReady = TRUE,
            !.posted = @ \o [i \in DOMAIN c.pendingMessages |->
                               [panel |-> c.panel,
                                messages |-> c.pendingMessages[i]]],
            !.pendingMessages = <<>>]

\* The onDidDispose listener.
DisposeHandler(c) == [c EXCEPT !.panel = 0, !.webviewReady = FALSE]

\* The panel's fields after postV08Messages(messages), with the call noted
\* in handed, the list of the non-empty batches the panel was given.
Handed(c, messages) ==
  [PostV08Messages(c, messages) EXCEPT
     !.handed = IF messages = <<>> THEN @ ELSE Append(@, messages)]

\* The panel may be given one more non-empty batch within the bounds.
CanvasHasRoom ==
  /\ Len(canvas.handed) < MaxHanded
  /\ canvas.panel = 0 => canvas.panels < MaxPanels

\* A router may hand the panel one more non-empty batch within the bounds.
RouterHasRoom ==
  /\ Len(canvas.handed) < MaxRouted
  /\ canvas.panel = 0 => canvas.panels < MaxPanels

\* router.route(event) on the router r. The a2ui case calls
\* convertMessagesToV08, which resets and advances the converter's idCounter
\* (it is left where the converter was when it throws), and hands what the
\* converter returns to canvas.postV08Messages; every router is built on the
\* one canvas panel.
RouteAt(r, e) ==
  LET gate == RouteBody(lastSeq[r], e)
      switch == Switch(e.payload)
      a2ui == gate.passed /\ e.payload # NoPayload /\ e.payload.kind = "a2ui"
      v08 == V08Of(e.payload)
      posts == a2ui /\ ~v08.raised
  IN /\ lastSeq' = [lastSeq EXCEPT ![r] = gate.lastSeq]
     /\ first' = [first EXCEPT ![r] = IF e.hasSeq THEN "no" ELSE @]
     /\ (posts /\ v08.ops # <<>>) => RouterHasRoom
     /\ routed' = [router |-> r, passed |-> gate.passed,
                   calls |-> IF gate.passed THEN switch.calls ELSE <<>>,
                   was |-> first[r],
                   raised |-> gate.passed /\ switch.raised]
     /\ idCounter' = IF a2ui THEN v08.n ELSE idCounter
     /\ canvas' = IF posts THEN Handed(canvas, v08.ops) ELSE canvas
     /\ UNCHANGED <<clientVars, conv, nodeConn>>

Route == \E r \in Routers, e \in Events : RouteAt(r, e)

\* router.resetSequence() on the router r
ResetSequenceAt(r) ==
  /\ lastSeq' = [lastSeq EXCEPT ![r] = ResetSequenceBody(lastSeq[r])]
  /\ first' = [first EXCEPT ![r] = "reset"]
  /\ routed' = [router |-> r, passed |-> FALSE, calls |-> <<>>, was |-> "no",
                raised |-> FALSE]
  /\ UNCHANGED <<clientVars, convVars, hostVars>>

ResetSequence == \E r \in Routers : ResetSequenceAt(r)

\* The routers alone: events routed and sequences reset in any order.
NextRouter == Route \/ ResetSequence

SpecRouter == Init /\ [][NextRouter]_vars

\* gatewayClient.onEvent((event) => router.route(event)): the message
\* listener translates the push frame f and the router r routes the event the
\* listener emits, if it emits one.
FrameRoutedAt(r, f) ==
  LET tr == Translate(f)
  IN IF tr.events = <<>>
     THEN /\ routed' = [router |-> r, passed |-> FALSE, calls |-> <<>>,
                        was |-> first[r], raised |-> tr.raised]
          /\ UNCHANGED <<lastSeq, first, clientVars, convVars, hostVars>>
     ELSE RouteAt(r, tr.events[1])

FrameRouted == \E r \in Routers, f \in PushFrames : FrameRoutedAt(r, f)

\* The frames of a session pushed through the translator into the router,
\* and chatProvider's new-run callback (router.resetSequence()).
NextTurn == FrameRouted \/ ResetSequence

SpecTurn == Init /\ [][NextTurn]_vars

\* router.route(event) with an a2ui event that is not of the declared type.
RouteOdd == \E r \in Routers, e \in OddEvents : RouteAt(r, e)

\* The routers fed with events of every shape.
NextA2ui == Route \/ RouteOdd \/ ResetSequence

SpecA2ui == Init /\ [][NextA2ui]_vars

\* The actions of the canvas panel.

\* The batches postV08Messages is called with apart from a route: the empty
\* batch, and the batch of one operation, as postA2UIMessage(message) passes
\* it; the operation names its surface after the number of the call.
NextBatches ==
  {<<>>,
   <<[deleteSurface |-> [surfaceId |-> "s" \o ToString(Len(canvas.handed) + 1)]]>>}

\* canvas.postV08Messages(messages)
PostBatch ==
  \E messages \in NextBatches :
    /\ messages # <<>> => CanvasHasRoom
    /\ canvas' = Handed(canvas, messages)
    /\ UNCHANGED <<clientVars, routerVars, convVars, nodeConn>>

\* canvas.reveal() by the command that opens the canvas.
RevealPanel ==
  /\ canvas.panel = 0 => canvas.panels < MaxPanels
  /\ canvas' = Reveal(canvas)
  /\ UNCHANGED <<clientVars, routerVars, convVars, nodeConn>>

\* The webview of the panel signals ready.
WebviewReady ==
  /\ canvas.panel # 0
  /\ canvas' = ReadyHandler(canvas)
  /\ UNCHANGED <<clientVars, routerVars, convVars, nodeConn>>

\* The panel is disposed (closed by the user).
PanelDisposed ==
  /\ canvas.panel # 0
  /\ canvas' = DisposeHandler(canvas)
  /\ UNCHANGED <<clientVars, routerVars, convVars, nodeConn>>

\* The canvas panel alone.
NextCanvas == PostBatch \/ RevealPanel \/ WebviewReady \/ PanelDisposed

SpecCanvas == Init /\ [][NextCanvas]_vars

\* The client of a caller that may also pass device keys to connect() and
\* sends no command.
NextKeys ==
  \/ Connect
  \/ ConnectKeys
  \/ Disconnect
  \/ TransportOpen
  \/ TransportError
  \/ TransportClose
  \/ TransportMessage
  \/ TransportPong
  \/ HandshakeTimeout
  \/ ReconnectTimerFires
  \/ HeartbeatTick
  \/ HeartbeatTimeoutFires

SpecKeys == Init /\ [][NextKeys]_vars

TypeOK ==
  /\ state \in ConnectionState
  /\ ws \in 0..MaxTransports
  /\ reconnectAttempt \in 0..RECONNECT_MAX_ATTEMPTS
  /\ timers \in 0..MaxTimers
  /\ reconnectTimer => timers > 0
  /\ heartbeatTimeout => heartbeatInterval # 0
  /\ heartbeatInterval # 0 => transports[heartbeatInterval].stage = "ok"
  /\ ws # 0 => transports[ws].stage # "none"
  /\ \A i \in CmdIds : i \in pendingRequests <=> outcome[i] = "pending"
  /\ \A t \in Slots : transports[t].handshakeTimer => transports[t].stage = "hs"
  /\ Len(out.notified) <= 2

\* -------------------------------------------------------------------- claims

Opened(t) == transports[t].stage \in {"hs", "ok", "failed"}
NoLiveTransport == \A t \in Slots : transports[t].stage = "none"

\* C1: when disconnect() returns, the state is disconnected, the pending table
\* is empty, every command that was pending is rejected, and no reconnect
\* timer, heartbeat interval or heartbeat timeout is left scheduled.
C1_DisconnectCancelsEverything ==
  [][Disconnect =>
       /\ state' = "disconnected"
       /\ pendingRequests' = {}
       /\ \A i \in CmdIds : outcome[i] = "pending" => outcome'[i] = "disconnected"
       /\ ~reconnectTimer'
       /\ timers' = 0
       /\ heartbeatInterval' = 0
       /\ ~heartbeatTimeout']_vars

\* C2: between disconnect() and the next connect() nothing happens any more:
\* the state stays disconnected, no observer is notified, no transport is
\* opened, no frame is sent and no reconnect is scheduled.
C2_QuietAfterDisconnect ==
  [][(intentionalDisconnect /\ intentionalDisconnect') =>
       /\ state' = "disconnected"
       /\ out'.notified = <<>>
       /\ out'.sent = "none"
       /\ timers' <= timers
       /\ \A t \in Slots :
            transports[t].stage = "none" => transports'[t].stage = "none"]_vars

\* C3: after 10 consecutive failed reconnect attempts the state is error, no
\* reconnect timer is pending, and there is no 11th attempt.
C3_TenAttemptsThenError ==
  /\ autoAttempts <= RECONNECT_MAX_ATTEMPTS
  /\ (autoAttempts = RECONNECT_MAX_ATTEMPTS /\ NoLiveTransport)
       => (state = "error" /\ timers = 0 /\ ~reconnectTimer)

\* C4: error is terminal: in state error no reconnect timer is pending and no
\* transport is open or being opened, and only connect() or disconnect()
\* leaves it.
C4_ErrorIsTerminal ==
  [][/\ state' = "error" =>
          /\ timers' = 0
          /\ \A t \in Slots : transports'[t].readyState \notin {"CONNECTING", "OPEN"}
     /\ (state = "error" /\ state' # "error") => (Connect \/ Disconnect)]_vars

\* C5: without a completed handshake and without connect()/disconnect() by the
\* caller, at most 10 reconnect attempts are made, and the attempt counter
\* goes back to 0 only when a (re)connection succeeded.
C5_ReconnectionBounded ==
  [][/\ autoAttempts' <= RECONNECT_MAX_ATTEMPTS
     /\ (reconnectAttempt # 0 /\ reconnectAttempt' = 0) => state' = "connected"]_vars

\* One step in which the caller's in-flight connect() on transport t fails:
\* the transport cannot be opened, the server answers ok:false, or the
\* handshake timer fires.
ConnectFails(t) ==
  \/ transports[t].stage = "pre" /\ TransportErrorAt(t)
  \/ transports[t].stage = "hs"
       /\ \E f \in Frames :
            f.type = "res" /\ f.id = 0 /\ ~f.ok /\ TransportMessageAt(t, f)
  \/ \E sync \in BOOLEAN : HandshakeTimeoutAt(t, sync)

\* C6: when a caller-initiated connect() fails, its promise is rejected and
\* the state becomes error.
C6_FailedConnectRejectsAndErrors ==
  [][\A t \in Slots :
       (connectT = t /\ connectPromise = "pending" /\ ConnectFails(t))
         => (connectPromise' = "rejected" /\ state' = "error")]_vars

\* A step in which the session loses an established transport: the close event
\* of a transport that had opened is handled, or disconnect() runs.
TransportCloses ==
  \/ \E t \in Slots : Opened(t) /\ transports'[t].stage = "none"
  \/ Disconnect

\* C7: whenever the session's transport closes (server close, network loss,
\* heartbeat force-close, handshake timeout, disconnect()) every command still
\* pending is rejected with a disconnection error and the pending table is
\* empty right afterwards.
C7_CloseRejectsAllPending ==
  [][TransportCloses =>
       /\ pendingRequests' = {}
       /\ \A i \in CmdIds :
            outcome[i] = "pending" => outcome'[i] \in {"closed", "disconnected"}]_vars

\* C7 witness: a close event has rejected a pending command.
C7_Witness == \E i \in CmdIds : outcome[i] = "closed"

\* C8: a command frame is transmitted only while the state is connected, on a
\* transport whose handshake the server accepted.
C8_CommandsOnlyWhenConnected ==
  out.sent = "cmd" => (state = "connected" /\ ws # 0 /\ transports[ws].stage = "ok")

\* C9: a frame received while the handshake has not completed is consumed by
\* the handshake: it delivers no push event to the onEvent handlers and
\* settles no pending command.
C9_HandshakeConsumesFrames ==
  [][\A t \in Slots, f \in Frames :
       (transports[t].stage = "hs" /\ TransportMessageAt(t, f))
         => (~out'.emitted /\ pendingRequests' = pendingRequests
             /\ outcome' = outcome)]_vars

\* C10: on a fresh session connect(), transport-open, connect.challenge and an
\* ok:true connect response resolve connect() and notify the observers with
\* exactly connecting, connected.
C10_HappyPathStates ==
  path = 4 =>
    /\ observed = <<"connecting", "connected">>
    /\ connectPromise = "resolved"
    /\ state = "connected"

\* C10 witness: the fresh session has gone through the four steps.
C10_Witness == path = 4 /\ state = "connected"

\* The connect.challenge frame whose payload carries nonce n.
Challenge(n) == [type |-> "event", event |-> "connect.challenge", nonce |-> n]

\* A step in which a connect request is sent in reaction to the challenge
\* with nonce n received on the handshaking transport t.
Answers(t, n) ==
  /\ out'.sent = "connect"
  /\ transports[t].stage = "hs"
  /\ TransportMessageAt(t, Challenge(n))

\* C11 as claimed: a connect request is sent only in reaction to a
\* connect.challenge received on a transport that is handshaking, and with
\* device keys configured its device assertion carries exactly the nonce of
\* that challenge.
C11_ConnectRequestCarriesNonce ==
  [][/\ out'.sent = "connect" => \E t \in Slots, n \in Nonces : Answers(t, n)
     /\ \A t \in Slots, n \in Nonces :
          (Answers(t, n) /\ deviceKeys) => out'.device = n]_vars

\* C11 amended: a connect request is sent only in reaction to a
\* connect.challenge received on a transport that is handshaking; with device
\* keys configured its device assertion carries the nonce of that challenge
\* when the nonce is non-empty, and no nonce when the challenge has none or an
\* empty one; without device keys there is no device assertion.
C11_ConnectRequestAnswersChallenge ==
  [][/\ out'.sent = "connect" => \E t \in Slots, n \in Nonces : Answers(t, n)
     /\ \A t \in Slots, n \in Nonces :
          Answers(t, n) =>
            out'.device = IF ~deviceKeys THEN "none"
                          ELSE IF n \in {"absent", ""} THEN "absent"
                          ELSE n]_vars

\* C11 witness: a connect request whose device assertion carries a nonce.
C11_Witness == out.sent = "connect" /\ deviceKeys /\ out.device = "n1"

\* C12: when the 10 s handshake timer of a transport expires, the handshake on
\* it is still unsettled, connect() is rejected with the handshake-timeout
\* error and the transport is closed; the timer is armed at transport-open
\* only, and it is cancelled as soon as the handshake completes or the
\* transport closes, so that it has no effect afterwards.
C12_HandshakeTimeout ==
  [][\A t \in Slots :
       /\ (\E sync \in BOOLEAN : HandshakeTimeoutAt(t, sync)) =>
            /\ transports[t].stage = "hs"
            /\ transports'[t].readyState \notin {"CONNECTING", "OPEN"}
            /\ connectT = t =>
                 /\ connectPromise' = "rejected"
                 /\ out'.connectError = "Handshake timed out waiting for connect.ok"
       /\ (transports[t].handshakeTimer /\ transports'[t].stage # "hs")
            => ~transports'[t].handshakeTimer
       /\ (~transports[t].handshakeTimer /\ transports'[t].handshakeTimer)
            => (transports[t].stage = "pre" /\ transports'[t].stage = "hs")]_vars

\* C12 witness: the handshake timer has rejected the caller's connect().
C12_Witness ==
  /\ connectPromise = "rejected"
  /\ out.connectError = "Handshake timed out waiting for connect.ok"

\* C13: while connected every tick of the heartbeat interval sends a probe; when
\* the acknowledgment timeout expires the transport is force-closed and its
\* close is handled as an unintentional disconnect (state disconnected, a
\* reconnect scheduled); an acknowledgment arriving before that cancels the
\* force-close and leaves the connection as it is.
C13_HeartbeatProbesAndForceCloses ==
  [][/\ (state = "connected" /\ HeartbeatTick) =>
          (out'.sent = "ping" /\ heartbeatTimeout')
     /\ (state = "connected" /\ HeartbeatTimeoutFires) =>
          /\ transports'[heartbeatInterval].readyState \notin {"CONNECTING", "OPEN"}
          /\ transports'[heartbeatInterval].stage = "none" =>
               (state' = "disconnected" /\ reconnectTimer' /\ timers' = timers + 1)
     /\ (state = "connected" /\ heartbeatTimeout /\ TransportPong) =>
          /\ ~heartbeatTimeout'
          /\ state' = "connected"
          /\ transports' = transports
          /\ heartbeatInterval' = heartbeatInterval]_vars

\* C14: sendCommand called while the session has no open transport (the handle
\* is null, or its socket is not OPEN) is rejected at once with the
\* not-connected error; it transmits nothing, allocates no command id,
\* creates no pending entry and sets no timer: the command timers that are
\* set, and the reconnect timeouts, are the same as before.
C14_SendCommandNotConnected ==
  [][(SendCommand /\ (ws = 0 \/ transports[ws].readyState # "OPEN")) =>
       /\ out'.result = "Not connected to Gateway"
       /\ out'.sent = "none"
       /\ commandIdCounter' = commandIdCounter
       /\ pendingRequests' = pendingRequests
       /\ outcome' = outcome
       /\ commandTimers' = commandTimers
       /\ timers' = timers]_vars

\* C14 witness: a sendCommand has been rejected as not connected.
C14_Witness == out.result = "Not connected to Gateway" /\ commandIdCounter = 0

\* C15: with several commands outstanding, a response frame with id X settles
\* exactly the pending command X: it is resolved with the payload the frame
\* carries when ok is true and rejected with the error message the frame
\* carries when ok is false, its entry is removed and its timer is cleared,
\* and every other command is left as it was, its entry and its timer; a
\* response whose id matches no pending entry changes nothing; and the id
\* given to a new command is not the id of a pending one.
C15_ResponseSettlesItsCommand ==
  [][/\ \A t \in Slots, f \in Frames :
          (f.type = "res" /\ f.id \in CmdIds /\ TransportMessageAt(t, f)) =>
            IF f.id \in pendingRequests
            THEN /\ outcome'[f.id] = IF f.ok THEN "resolved" ELSE "rejected"
                 /\ (f.ok /\ f.payload # "absent") => out'.value = f.payload
                 /\ (~f.ok /\ f.error \in {"boom", "{message:boom}"})
                      => out'.value = "boom"
                 /\ pendingRequests' = pendingRequests \ {f.id}
                 /\ f.id \in commandTimers
                 /\ commandTimers' = commandTimers \ {f.id}
                 /\ \A j \in CmdIds \ {f.id} : outcome'[j] = outcome[j]
            ELSE /\ pendingRequests' = pendingRequests
                 /\ commandTimers' = commandTimers
                 /\ outcome' = outcome
                 /\ out'.value = "none"
     /\ (SendCommandMany /\ out'.sent = "cmd") =>
          /\ commandIdCounter' \notin pendingRequests
          /\ pendingRequests' = pendingRequests \cup {commandIdCounter'}]_vars

\* C15 witness: one of two outstanding commands has just been settled by its
\* response and the other is still pending.
C15_Witness ==
  /\ out.value # "none"
  /\ \E i, j \in CmdIds :
       outcome[i] \in {"resolved", "rejected"} /\ outcome[j] = "pending"

\* C16: when the 30 s timer of a pending command fires, the command is rejected
\* with the timeout error and removed from the pending table; from then on it
\* stays so: a response carrying its id that arrives later changes nothing.
C16_CommandTimeout ==
  [][/\ \A id \in CmdIds :
          CommandTimeoutAt(id) =>
            /\ outcome[id] = "pending"
            /\ outcome'[id] = "timeout"
            /\ pendingRequests' = pendingRequests \ {id}
            /\ \A j \in CmdIds \ {id} : outcome'[j] = outcome[j]
     /\ \A id \in CmdIds : outcome[id] = "timeout" => outcome'[id] = "timeout"
     /\ \A t \in Slots, f \in Frames :
          (f.type = "res" /\ f.id \in CmdIds /\ outcome[f.id] = "timeout"
             /\ TransportMessageAt(t, f)) =>
            (pendingRequests' = pendingRequests /\ outcome' = outcome
               /\ out'.value = "none")]_vars

\* C16 witness: a command has timed out and the session is still connected,
\* so that its response can still arrive.
C16_Witness ==
  \E id \in CmdIds :
    /\ outcome[id] = "timeout"
    /\ state = "connected" /\ ws # 0 /\ transports[ws].io

\* A step in which the pending command id fails: its timer fires, or a
\* response with its id and ok:false is received.
CommandFails(id) ==
  /\ outcome[id] = "pending"
  /\ \/ CommandTimeoutAt(id)
     \/ \E t \in Slots, e \in Errors :
          TransportMessageAt(t, [type |-> "res", id |-> id, ok |-> FALSE,
                                 payload |-> "absent", error |-> e])

\* C17: while connected, the failure of one command (ok:false response or
\* timeout) changes nothing but that command: the state (no observer is
\* notified), the transport handle and the transports, the heartbeat timers,
\* the reconnect counter and timers, and every other command stay as they are.
C17_CommandFailureIsLocal ==
  [][\A id \in CmdIds :
       (state = "connected" /\ CommandFails(id)) =>
         /\ outcome'[id] \in {"rejected", "timeout"}
         /\ UNCHANGED <<state, ws, transports, intentionalDisconnect,
                        heartbeatInterval, heartbeatTimeout,
                        reconnectAttempt, reconnectTimer, timers>>
         /\ out'.notified = <<>> /\ out'.sent = "none"
         /\ pendingRequests' = pendingRequests \ {id}
         /\ \A j \in CmdIds \ {id} : outcome'[j] = outcome[j]]_vars

\* C17 witness: connected with the heartbeat running, an ok:false response has
\* just rejected one command while another is still pending.
C17_Witness ==
  /\ state = "connected" /\ heartbeatInterval # 0
  /\ out.value = "boom"
  /\ \E i, j \in CmdIds : outcome[i] = "rejected" /\ outcome[j] = "pending"

\* The delays C18 lists, for k = 0..9.
ExpectedDelay ==
  <<1000, 2000, 4000, 8000, 16000, 30000, 30000, 30000, 30000, 30000>>

\* C18: the k-th consecutive reconnect attempt (k counted from 0, the attempts
\* made since the caller's connect() or the last completed handshake) is
\* scheduled with a delay of min(1000 * 2^k, 30000) ms.
C18_BackoffDelay ==
  [][(out'.delay # 0 /\ autoAttempts' < RECONNECT_MAX_ATTEMPTS) =>
       out'.delay = ExpectedDelay[autoAttempts' + 1]]_vars

\* C19: route() dispatches an event that carries no seq and leaves the
\* watermark unchanged; an event whose seq is <= the watermark reaches no sink
\* and leaves the watermark unchanged; any other event becomes the watermark
\* and is dispatched.
C19_SequenceGate ==
  [][\A r \in Routers, e \in Events :
       RouteAt(r, e) =>
         IF ~e.hasSeq
         THEN /\ lastSeq'[r] = lastSeq[r]
              /\ routed'.passed
              /\ e.payload.kind # "other" => routed'.calls # <<>>
         ELSE IF e.seq <= lastSeq[r]
         THEN /\ lastSeq'[r] = lastSeq[r]
              /\ ~routed'.passed
              /\ routed'.calls = <<>>
         ELSE /\ lastSeq'[r] = e.seq
              /\ routed'.passed
              /\ e.payload.kind # "other" => routed'.calls # <<>>]_vars

\* C19 witness: an event was dropped by a router that had accepted a seq.
C19_Witness ==
  /\ ~routed.passed
  /\ \E r \in Routers : routed.router = r /\ lastSeq[r] > 0 /\ first[r] = "no"

\* C20 as claimed: on a fresh router and right after resetSequence() the next
\* event that carries a seq is accepted whatever its value.
C20_FirstSeqAccepted ==
  [][\A r \in Routers, e \in Events :
       (first[r] # "no" /\ e.hasSeq /\ RouteAt(r, e)) =>
         (routed'.passed /\ lastSeq'[r] = e.seq)]_vars

\* C20 amended: on a fresh router and right after resetSequence() the next
\* event that carries a seq >= 0 is accepted whatever its value, including 0
\* and values lower than every seq accepted before the reset.
C20_FirstNonNegativeSeqAccepted ==
  [][\A r \in Routers, e \in Events :
       (first[r] # "no" /\ e.hasSeq /\ e.seq >= 0 /\ RouteAt(r, e)) =>
         (routed'.passed /\ lastSeq'[r] = e.seq)]_vars

\* C20 witness: the first event with a seq routed after a resetSequence()
\* carried seq 0 and was accepted.
C20_Witness ==
  /\ routed.passed /\ routed.was = "reset"
  /\ \E r \in Routers : routed.router = r /\ first[r] = "no" /\ lastSeq[r] = 0

\* The sinks a sequence of sink calls reaches.
SinksOf(calls) == {calls[i].sink : i \in DOMAIN calls}

\* The dispatch table of the specification, by kind.
Table(kind) ==
  CASE kind \in {"text_delta", "tool_start", "tool_result", "done"}
         -> {"chat.postEvent"}
    [] kind = "diff" -> {"chat.postEvent", "bridge.showDiff"}
    [] kind = "a2ui" -> {"canvas.postV08Messages"}
    [] OTHER -> {}

\* C21: an event that passes the sequence gate reaches exactly the sinks of
\* the dispatch table for its kind (none for any other kind), each of them
\* once; an event that does not pass reaches no sink.
C21_DispatchTable ==
  [][\A r \in Routers, e \in Events :
       RouteAt(r, e) =>
         IF routed'.passed
         THEN /\ SinksOf(routed'.calls) = Table(e.payload.kind)
              /\ Cardinality(SinksOf(routed'.calls)) = Len(routed'.calls)
         ELSE routed'.calls = <<>>]_vars

\* C21 witness: an event passed the gate and reached the chat and the bridge.
C21_Witness ==
  /\ routed.passed
  /\ SinksOf(routed.calls) = {"chat.postEvent", "bridge.showDiff"}

\* C22: a diff event that passes the gate is posted to the chat with its
\* payload as received, and shown by the bridge with the original replaced by
\* "" when it is null and unchanged otherwise, the modified text and the path.
C22_DiffNullOriginal ==
  [][\A r \in Routers, e \in Events :
       (e.payload.kind = "diff" /\ RouteAt(r, e) /\ routed'.passed) =>
         /\ \E i \in DOMAIN routed'.calls :
              /\ routed'.calls[i].sink = "chat.postEvent"
              /\ routed'.calls[i].args = <<e.payload>>
         /\ \E i \in DOMAIN routed'.calls :
              /\ routed'.calls[i].sink = "bridge.showDiff"
              /\ routed'.calls[i].args =
                   <<IF e.payload.original = Null THEN "" ELSE e.payload.original,
                     e.payload.modified, e.payload.path>>]_vars

\* C22 witness: a diff whose original is null was shown with "" and posted to
\* the chat with the null original.
C22_Witness ==
  /\ routed.passed
  /\ \E i, j \in DOMAIN routed.calls :
       /\ routed.calls[i].sink = "chat.postEvent"
       /\ routed.calls[i].args[1].kind = "diff"
       /\ routed.calls[i].args[1].original = Null
       /\ routed.calls[j].sink = "bridge.showDiff"
       /\ routed.calls[j].args[1] = ""

\* What the translation of the push frame f is claimed to emit: an event with
\* the given payload ("event"), the frame itself ("same"), "nothing", or
\* "unclaimed" for the frames the claim does not speak of.
Claimed(f) ==
  LET p == f.payload
      Is(w) == [what |-> w, payload |-> NoPayload]
  IN CASE f.event \in {"health", "tick"} -> Is("nothing")
       [] f.event = "agent" /\ p # NoPayload /\ p.stream = "assistant" ->
            IF p.delta \in {"absent", ""} THEN Is("nothing")
            ELSE [what |-> "event",
                  payload |-> [kind |-> "text_delta", content |-> p.delta]]
       [] f.event = "agent" /\ p # NoPayload /\ p.stream # "assistant"
            /\ p.kind # "absent" -> Is("same")
       [] f.event \notin {"agent", "chat"} /\ p # NoPayload -> Is("same")
       [] f.event = "chat" /\ p # NoPayload /\ p.state = "final" ->
            [what |-> "event",
             payload |-> [kind |-> "done", stopReason |-> "end_turn"]]
       [] f.event = "chat" /\ p # NoPayload /\ p.state = "error"
            /\ p.errorMessage # "absent" ->
            [what |-> "event",
             payload |-> [kind |-> "done", stopReason |-> p.errorMessage]]
       [] f.event = "chat" /\ p # NoPayload /\ p.state = "aborted" ->
            [what |-> "event",
             payload |-> [kind |-> "done", stopReason |-> "aborted"]]
       [] f.event = "chat" /\ p # NoPayload /\ p.state = "delta" ->
            Is("nothing")
       [] OTHER -> Is("unclaimed")

\* C23: a push frame received on a transport whose handshake is complete
\* makes the client emit at most one event; the event carries the frame's seq
\* when it has one and none otherwise; an assistant-stream agent frame yields
\* text_delta with the delta as content when the delta is non-empty and
\* nothing otherwise, another agent frame that has a kind is emitted as it
\* is, a chat frame yields done with end_turn (final), the carried error
\* message (error) or aborted (aborted) and nothing for delta, and health and
\* tick frames yield nothing.
C23_Translation ==
  [][\A t \in Slots, f \in PushFrames :
       (transports[t].stage = "ok" /\ TransportMessageAt(t, f)) =>
         LET c == Claimed(f)
             ev == out'.events
         IN /\ Len(ev) <= 1
            /\ \A i \in DOMAIN ev :
                 ev[i].hasSeq = f.hasSeq /\ ev[i].seq = f.seq
            /\ c.what = "nothing" => ev = <<>>
            /\ c.what = "same" => ev = <<f>>
            /\ c.what = "event" =>
                 /\ Len(ev) = 1
                 /\ ev[1].type = "event" /\ ev[1].event = "agent"
                 /\ ev[1].payload = c.payload]_vars

\* C23 witness: a connected client translated a chat frame in state error
\* into done with the carried message and the frame's seq.
C23_Witness ==
  /\ state = "connected"
  /\ Len(out.events) = 1
  /\ out.events[1].event = "agent"
  /\ out.events[1].hasSeq /\ out.events[1].seq = 1
  /\ out.events[1].payload = [kind |-> "done", stopReason |-> "boom"]

\* C24 as claimed: no exception escapes the message listener, whatever the
\* data received.
C24_NeverRaises == ~out.raised

\* The objects of a converter input (the lines that parse).
Parsed == SelectSeq(conv.input, LAMBDA l : l # BadLine)
Converted == conv.fn # "none"

\* C25: when every object of the batch is a structured operation the
\* converter returns the batch itself, same operations in the same order; and
\* converting the converter's output again, with either function, returns
\* that output.
C25_Idempotent ==
  Converted =>
    /\ (\A i \in DOMAIN Parsed : IsV08Message(Parsed[i])) => conv.output = Parsed
    /\ ConvertMessagesToV08(conv.output).ops = conv.output
    /\ ConvertJsonlToV08(conv.output).ops = conv.output

\* C25 witness: a batch of MaxBatch structured operations, not all the same,
\* was converted into itself.
C25_Witness ==
  /\ Converted
  /\ Len(conv.input) = MaxBatch
  /\ \A i \in DOMAIN conv.input : conv.input[i] \in V08Ops
  /\ conv.input[1] # conv.input[2]
  /\ conv.output = conv.input

\* The operations of the output that the converter built (the others are
\* operations of the input, passed through).
Built == {i \in DOMAIN conv.output : \A j \in DOMAIN Parsed : Parsed[j] # conv.output[i]}

\* The components of a surface-update and their ids.
ComponentsOf(op) == op.surfaceUpdate.components
IdsOf(op) == {ComponentsOf(op)[i].id : i \in DOMAIN ComponentsOf(op)}

\* The number of components of the operations from the i-th on.
RECURSIVE CountFrom(_, _)
CountFrom(ops, i) ==
  IF i > Len(ops) THEN 0
  ELSE (IF Has(ops[i], "surfaceUpdate") THEN Len(ComponentsOf(ops[i])) ELSE 0)
         + CountFrom(ops, i + 1)

\* C26 as claimed: all the component ids of the output of one conversion are
\* pairwise distinct.
C26_IdsUnique ==
  Converted =>
    Cardinality(UNION {IdsOf(conv.output[i]) :
                         i \in {j \in DOMAIN conv.output :
                                  Has(conv.output[j], "surfaceUpdate")}})
      = CountFrom(conv.output, 1)

\* The child ids a component lists.
ChildrenOf(c) ==
  IF Has(c.component.props, "children")
  THEN {c.component.props.children.explicitList[k] :
          k \in DOMAIN c.component.props.children.explicitList}
  ELSE {}

\* C27: in every surface-update the converter builds, every id of a
\* component's explicit child list is the id of a component of that
\* surface-update, and the operation after it is the begin-rendering of the
\* same surface whose root is the id of a component of that surface-update.
C27_ReferencesResolve ==
  Converted =>
    \A i \in Built :
      Has(conv.output[i], "surfaceUpdate") =>
        /\ \A k \in DOMAIN ComponentsOf(conv.output[i]) :
             ChildrenOf(ComponentsOf(conv.output[i])[k]) \subseteq IdsOf(conv.output[i])
        /\ i + 1 \in Built
        /\ Has(conv.output[i + 1], "beginRendering")
        /\ conv.output[i + 1].beginRendering.surfaceId
             = conv.output[i].surfaceUpdate.surfaceId
        /\ conv.output[i + 1].beginRendering.root \in IdsOf(conv.output[i])

\* C27 witness: a built surface-update has a component with MaxChildren
\* children.
C27_Witness ==
  /\ Converted
  /\ \E i \in Built :
       /\ Has(conv.output[i], "surfaceUpdate")
       /\ \E k \in DOMAIN ComponentsOf(conv.output[i]) :
            Cardinality(ChildrenOf(ComponentsOf(conv.output[i])[k])) = MaxChildren

\* A non-empty batch of bare freeform objects was converted by
\* convertJsonlToV08.
IsBareBatch ==
  /\ conv.fn = "convertJsonlToV08"
  /\ Parsed # <<>>
  /\ \A i \in DOMAIN Parsed :
       IsObject(Parsed[i]) /\ ~IsV08Message(Parsed[i])
         /\ ~IsCreateSurface(Parsed[i])

\* The objects of the batch that are not page/header/title objects.
NonMeta == SelectSeq(Parsed, LAMBDA m : ~IsMeta(m))

\* The page/header/title objects of the batch that carry a title, a text or
\* a label (their positions), and the text of one.
Titled ==
  {i \in DOMAIN Parsed :
     IsMeta(Parsed[i]) /\ FirstKey(Parsed[i], <<"title", "text", "label">>) # ""}
TextAt(i) == Parsed[i][FirstKey(Parsed[i], <<"title", "text", "label">>)]

\* The name of the component that is the root of a node's subtree.
RootName(node) ==
  LET typeName == Capitalize(IF Given(node, "type") THEN node.type ELSE "Text")
  IN CASE typeName = "Table" -> "Column"
       [] typeName \in {"Progress", "Codeblock", "CodeBlock"} -> "Text"
       [] OTHER -> typeName

\* The output is one surface-update on the default surface followed by one
\* begin-rendering whose root is a vertical stack built last; the stack's
\* children are the title component, built just before it, and then one root
\* per non-meta object in input order.
TwoOperations ==
  /\ Len(conv.output) = 2
  /\ Has(conv.output[1], "surfaceUpdate")
  /\ conv.output[1].surfaceUpdate.surfaceId = "main"
  /\ Has(conv.output[2], "beginRendering")
  /\ conv.output[2].beginRendering.surfaceId = "main"
  /\ LET comps == ComponentsOf(conv.output[1])
         stack == comps[Len(comps)]
         title == comps[Len(comps) - 1]
         kids == stack.component.props.children.explicitList
     IN /\ Len(comps) >= 2
        /\ stack.id = conv.output[2].beginRendering.root
        /\ stack.component.name = "Column"
        /\ title.component.name = "Text"
        /\ Len(kids) = 1 + Len(NonMeta)
        /\ kids[1] = title.id
        /\ \A q \in DOMAIN NonMeta :
             /\ Given(NonMeta[q], "id") => kids[q + 1] = NonMeta[q].id
             /\ \E j \in 1..(Len(comps) - 2) :
                  /\ comps[j].id = kids[q + 1]
                  /\ comps[j].component.name = RootName(NonMeta[q])

\* The text of the title component of the output.
TitleText ==
  ComponentsOf(conv.output[1])[Len(ComponentsOf(conv.output[1])) - 1]
    .component.props.text.literalString

\* C28 as claimed: every non-empty batch of bare freeform objects gives the
\* two operations, and the title is the text of the last page/header/title
\* object of the batch.
C28_BareBatch ==
  IsBareBatch =>
    /\ TwoOperations
    /\ \A i \in DOMAIN Parsed :
         (IsMeta(Parsed[i]) /\ \A j \in (i + 1)..Len(Parsed) : ~IsMeta(Parsed[j]))
           => (i \in Titled /\ TitleText = TextAt(i))

\* C28 amended: every batch of bare freeform objects of which at least one is
\* not a page/header/title object gives the two operations; the title is the
\* text of the last page/header/title object that carries a title, a text or
\* a label, and "Canvas" when there is none.
C28_BareBatchWithContent ==
  (IsBareBatch /\ NonMeta # <<>>) =>
    /\ TwoOperations
    /\ TitleText = IF Titled = {} THEN "Canvas"
                   ELSE TextAt(CHOOSE i \in Titled : \A j \in Titled : j <= i)

\* C28 witness: a batch with two titled meta objects and a node in between
\* was converted, and the title is the text of the second.
C28_Witness ==
  /\ IsBareBatch
  /\ Len(Parsed) = 3 /\ Titled = {1, 3} /\ TextAt(1) # TextAt(3)
  /\ Len(conv.output) = 2
  /\ TitleText = TextAt(3)

\* The first k texts of a list joined by the separator, a null taken as "".
RECURSIVE JoinedUpTo(_, _)
JoinedUpTo(texts, k) ==
  LET text(i) == IF IsNull(texts[i]) THEN "" ELSE texts[i]
  IN IF k = 0 THEN ""
     ELSE IF k = 1 THEN text(1)
     ELSE JoinedUpTo(texts, k - 1) \o SEP \o text(k)

\* A Table node with at least one column label was converted on its own.
IsTableInput ==
  /\ Converted
  /\ Len(conv.input) = 1
  /\ conv.input[1] \in TableNodes
  /\ Has(conv.input[1], "columns")
  /\ Len(conv.input[1].columns) >= 1

\* C29: a Table node with column labels and array rows gives, in this order,
\* a text component with the labels joined by the separator, a divider, one
\* text component per row with its cells joined by the separator, and a
\* vertical stack that carries the node's id, lists these components in this
\* order as its children and is the node's root in the surface.
C29_TableDecomposition ==
  IsTableInput =>
    LET node == conv.input[1]
        m == Len(node.rows)
        comps == ComponentsOf(conv.output[1])
        stack == comps[m + 3]
        root == comps[Len(comps)]
    IN /\ Len(conv.output) = 2
       /\ Len(comps) > m + 3
       /\ comps[1].component.name = "Text"
       /\ comps[1].component.props.text.literalString
            = JoinedUpTo(node.columns, Len(node.columns))
       /\ comps[2].component.name = "Divider"
       /\ \A i \in 1..m :
            /\ comps[2 + i].component.name = "Text"
            /\ comps[2 + i].component.props.text.literalString
                 = JoinedUpTo(node.rows[i], Len(node.rows[i]))
       /\ stack.component.name = "Column"
       /\ Given(node, "id") => stack.id = node.id
       /\ stack.component.props.children.explicitList
            = [i \in 1..(m + 2) |-> comps[i].id]
       /\ root.id = conv.output[2].beginRendering.root
       /\ LET kids == root.component.props.children.explicitList
          IN kids[Len(kids)] = stack.id

\* C29 witness: a table with MaxCols columns and MaxRows rows, the second with
\* a null cell, was decomposed.
C29_Witness ==
  /\ IsTableInput
  /\ Len(conv.input[1].columns) = MaxCols
  /\ Len(conv.input[1].rows) = MaxRows
  /\ Len(conv.output) = 2
  /\ Len(ComponentsOf(conv.output[1])) >= MaxRows + 4

\* A Progress node was converted on its own by convertMessagesToV08.
IsProgressInput ==
  /\ conv.fn = "convertMessagesToV08"
  /\ Len(conv.input) = 1
  /\ conv.input[1] \in ProgressNodes

\* round(100 * clamp(value / max, 0, 1)) for integers value and max # 0.
ClampedPct(value, max) ==
  LET v == IF max > 0 THEN value ELSE -value
      m == IF max > 0 THEN max ELSE -max
  IN IF v <= 0 THEN 0 ELSE IF v >= m THEN 100 ELSE (200 * v + m) \div (2 * m)

\* C30 as claimed: for every value and max of a Progress node there is a pct
\* in 0..100, equal to round(100 * clamp(value / max, 0, 1)) when max is not
\* 0, such that the text is the label (pct followed by % without a label),
\* a line break, and a bar of round(pct / 5) filled glyphs followed by empty
\* ones up to 20 glyphs.
C30_ProgressBar ==
  IsProgressInput =>
    LET node == conv.input[1]
        value == IF Given(node, "value") THEN node.value ELSE 0
        max == IF Given(node, "max") THEN node.max ELSE 100
        text == ComponentsOf(conv.output[1])[1].component.props.text.literalString
    IN \E pct \in 0..100 :
         /\ max # 0 => pct = ClampedPct(value, max)
         /\ text = (IF Given(node, "label") /\ node.label # "" THEN node.label
                    ELSE ToString(pct) \o "%")
                     \o "\n" \o Repeat(FILLED, (2 * pct + 5) \div 10)
                     \o Repeat(EMPTY, 20 - (2 * pct + 5) \div 10)

\* C30 restricted to the nodes whose value and max are not both 0 and whose
\* quotient is not one the double product takes below the half.
C30_ProgressBarDefined ==
  (/\ IsProgressInput
   /\ ~ProgressParts(conv.input[1]).nan
   /\ ~(/\ Has(conv.input[1], "value") /\ Has(conv.input[1], "max")
        /\ BelowHalf(conv.input[1].value, conv.input[1].max)))
    => C30_ProgressBar

\* C30: the node with value 29 and max 200 gives 14%, not 15%.
C30_DoubleBelowHalf ==
  (IsProgressInput /\ conv.input[1] = [type |-> "progress", value |-> 29,
                                       max |-> 200]) =>
    ComponentsOf(conv.output[1])[1].component.props.text.literalString
      = "14%\n" \o Repeat(FILLED, 3) \o Repeat(EMPTY, 17)

\* A node with value 50 and the default max gives 50% and 10 + 10 glyphs.
C30_Example ==
  (IsProgressInput /\ conv.input[1] = [type |-> "progress", value |-> 50]) =>
    ComponentsOf(conv.output[1])[1].component.props.text.literalString
      = "50%\n##########----------"

\* C31 as claimed: routing an a2ui event whose message is missing, is not an
\* object, has no known shape or is a createSurface with unusable components
\* completes without an exception, and the converter returns no operation
\* for it.
C31_NeverRaises ==
  [][\A r \in Routers, e \in OddEvents :
       (RouteAt(r, e) /\ routed'.passed) =>
         /\ ~routed'.raised
         /\ routed'.calls
              = <<[sink |-> "canvas.postV08Messages", args |-> <<<<>>>>]>>]_vars

\* C31 without the exception: route() raises on no a2ui event.
C31_RouteCompletes == ~routed.raised

\* C31 for the objects of no known shape: no exception, no operation.
C31_UnknownShapeDropped ==
  [][\A r \in Routers, e \in OddEvents :
       (RouteAt(r, e) /\ routed'.passed /\ Has(e.payload, "payload")
          /\ IsObject(e.payload.payload)
          /\ ~IsCreateSurface(e.payload.payload)) =>
         /\ ~routed'.raised
         /\ routed'.calls
              = <<[sink |-> "canvas.postV08Messages", args |-> <<<<>>>>]>>]_vars

\* The batches posted, in order.
PostedBatches == [i \in DOMAIN canvas.posted |-> canvas.posted[i].messages]

\* C32: at every moment the batches posted to a webview, followed by the
\* batches still buffered, are the non-empty batches handed to
\* postV08Messages, each once and in call order; a batch is posted only to
\* the panel that exists; and when ready arrives the buffer is flushed whole.
C32_PostedOnceInOrder ==
  /\ [](PostedBatches \o canvas.pendingMessages = canvas.handed)
  /\ [][/\ Len(canvas'.posted) > Len(canvas.posted) =>
             /\ canvas.panel # 0
             /\ \A i \in (Len(canvas.posted) + 1)..Len(canvas'.posted) :
                  canvas'.posted[i].panel = canvas.panel
        /\ (canvas.panel # 0 /\ canvas' = ReadyHandler(canvas)) =>
             /\ canvas'.pendingMessages = <<>>
             /\ PostedBatches' = canvas.handed]_vars

\* C32 witness: two batches were buffered for a panel that was disposed
\* before it was ready, and were posted, in order, to a later panel after a
\* batch that an earlier panel had received.
C32_Witness ==
  /\ Len(canvas.posted) = 3
  /\ canvas.posted[1].panel = 1
  /\ canvas.posted[2].panel = 3
  /\ canvas.posted[3].panel = 3
  /\ canvas.pendingMessages = <<>>

\* The transports of the session that are open or being opened.
LiveTransports == {t \in Slots : transports[t].readyState \in {"CONNECTING", "OPEN"}}

\* C33 as claimed: the session never owns two transports that are open or
\* being opened.
C33_OneLiveTransport == Cardinality(LiveTransports) <= 1

\* The transport t was replaced: the session's handle is another transport.
Superseded(t) == ws # 0 /\ ws # t /\ transports[t].stage # "none"

\* The current connection is left as it is.
CurrentUntouched ==
  /\ ws' = ws
  /\ heartbeatInterval' = heartbeatInterval
  /\ pendingRequests' = pendingRequests
  /\ state' = state
  /\ timers' = timers

\* C34 as claimed: a close, error or message event of a transport that was
\* replaced leaves the current transport handle, the heartbeat, the pending
\* commands, the state and the reconnect timers as they are.
C34_SupersededIsInert ==
  [][\A t \in Slots :
       Superseded(t) =>
         /\ Apply(CloseEvent(Cur, t), "close") => CurrentUntouched
         /\ TransportErrorAt(t) => CurrentUntouched
         /\ \A f \in Frames :
              TransportMessageAt(t, f) => CurrentUntouched]_vars

\* C34 for a transport that disconnect() closed before the next connect().
C34_ClosedByDisconnect ==
  [][\A t \in Slots :
       (Superseded(t) /\ transports[t].readyState = "CLOSING"
          /\ Cardinality(LiveTransports) = 1) =>
         (Apply(CloseEvent(Cur, t), "close") => CurrentUntouched)]_vars

\* The promise of the command i is settled.
Settled(i) == outcome[i] \notin {"unsent", "pending"}

\* C35: the promise of a command is pending exactly while its entry is in
\* the pending table and exactly while its timer is set; once it is settled,
\* by its response, its timeout, a transport close or disconnect(), nothing
\* settles it again (a second response, the timer, a close and disconnect()
\* find neither entry nor timer); and every pending promise is settled in
\* the end.
C35_SettledExactlyOnce ==
  /\ [](\A i \in CmdIds :
         /\ outcome[i] = "pending" <=> i \in pendingRequests
         /\ i \in commandTimers <=> i \in pendingRequests)
  /\ [][\A i \in CmdIds : Settled(i) => outcome'[i] = outcome[i]]_vars
  /\ \A i \in CmdIds : (outcome[i] = "pending") ~> Settled(i)

\* C35 witness: one command was settled by its response and the other by its
\* timeout, and neither has an entry or a timer left.
C35_Witness ==
  /\ \E i, j \in CmdIds : outcome[i] = "resolved" /\ outcome[j] = "timeout"
  /\ pendingRequests = {}
  /\ commandTimers = {}

\* C36 as claimed: whenever the state is connected the heartbeat interval
\* timer is active and probes the current transport.
C36_ConnectedIsProbed ==
  state = "connected" => (ws # 0 /\ heartbeatInterval = ws)

\* C36 while the session has a transport that is open: the state is not
\* connected without a heartbeat on it.
C36_OpenIsProbed ==
  (state = "connected" /\ ws # 0 /\ transports[ws].readyState = "OPEN")
    => heartbeatInterval = ws

\* C36 in the long run: the session does not stay connected for ever without
\* a transport.
C36_NotStuckConnected ==
  ~(state = "connected" /\ ws = 0 /\ LiveTransports = {}
      /\ \A t \in Slots : transports[t].stage = "none")

\* C37: an event with a seq that a router delivers to a sink has a seq
\* higher than the router's watermark, and becomes the watermark; the
\* watermark of a router only goes down by its own resetSequence(); so the
\* seqs a router delivers between two resets are strictly increasing. And
\* route() and resetSequence() on one router leave the watermark of every
\* other router as it is.
C37_StrictlyIncreasingPerRouter ==
  [][/\ \A r \in Routers, e \in Events :
          RouteAt(r, e) =>
            /\ (e.hasSeq /\ routed'.calls # <<>>) =>
                 (e.seq > lastSeq[r] /\ lastSeq'[r] = e.seq)
            /\ lastSeq'[r] >= lastSeq[r]
            /\ \A q \in Routers \ {r} : lastSeq'[q] = lastSeq[q]
     /\ \A r \in Routers :
          ResetSequenceAt(r) =>
            \A q \in Routers \ {r} : lastSeq'[q] = lastSeq[q]]_vars

\* C37 witness: the second router delivered the event with seq 0 while the
\* first router's watermark was MaxSeq.
C37_Witness ==
  /\ routed.router = 2 /\ routed.passed /\ routed.calls # <<>>
  /\ routed.was = "fresh"
  /\ lastSeq[2] = 0
  /\ lastSeq[1] = MaxSeq


\* C38: a chat frame whose state is final, error or aborted is translated
\* to a done event and that event is posted to the chat, whatever frames
\* were routed before it.
IsTurnEnd(f) ==
  /\ f.event = "chat"
  /\ f.payload # NoPayload
  /\ f.payload.state \in {"final", "error", "aborted"}

PostsDone(calls) ==
  \E i \in DOMAIN calls :
    calls[i].sink = "chat.postEvent" /\ calls[i].args[1].kind = "done"

C38_DoneDelivered ==
  [][\A r \in Routers, f \in PushFrames :
       (IsTurnEnd(f) /\ FrameRoutedAt(r, f)) => PostsDone(routed'.calls)]_vars

\* C38: the done event is delivered when its seq is above the watermark or
\* when it has no seq.
C38_DoneAboveWatermark ==
  [][\A r \in Routers, f \in PushFrames :
       (IsTurnEnd(f) /\ FrameRoutedAt(r, f)) =>
         (PostsDone(routed'.calls) <=> (~f.hasSeq \/ f.seq > lastSeq[r]))]_vars

\* C39: a step that takes the state to connected calls notifyReconnected
\* once when the state was connected before, and not at all otherwise.
C39_ReconnectionNotifiedOnce ==
  [][(state # "connected" /\ state' = "connected") =>
       observer'.reconnected = IF observer.hasConnectedBefore THEN 1 ELSE 0]_vars

\* C39: the first connection is not notified.
C39_FirstConnectionSilent ==
  [][(state' = "connected" /\ ~observer.hasConnectedBefore) =>
       observer'.reconnected = 0]_vars

\* C39: with one connect() call the observer never calls notifyReconnected:
\* doConnect notifies "connecting" before every "connected".
C39_NeverNotified == observer.reconnected = 0

\* C40: on a transport that is open, every request whose handling has ended
\* has exactly one node.invoke.result with its id and node id: the results
\* that carry a request's id and node id are as many as the ended requests
\* that carry them.
ResultsOf(p) ==
  {i \in DOMAIN nodeConn.sent :
     nodeConn.sent[i].id = p.id /\ nodeConn.sent[i].nodeId = p.nodeId}

EndedOf(p) ==
  {i \in DOMAIN nodeConn.received \ nodeConn.awaiting :
     nodeConn.received[i].id = p.id /\ nodeConn.received[i].nodeId = p.nodeId}

C40_ExactlyOneResult ==
  nodeConn.readyState = "OPEN" =>
    \A i \in DOMAIN nodeConn.received \ nodeConn.awaiting :
      Cardinality(ResultsOf(nodeConn.received[i]))
        = Cardinality(EndedOf(nodeConn.received[i]))

\* C40: no handleInvoke call ends with an exception.
C40_NothingRaises == nodeConn.unhandled = 0

\* C40: a result answers a request that was received and whose handling has
\* ended, with its id and node id, and the results never outnumber those
\* requests: a request has at most one result.
C40_AtMostOneResult ==
  \A i \in DOMAIN nodeConn.sent :
    /\ EndedOf(nodeConn.sent[i]) # {}
    /\ Cardinality(ResultsOf(nodeConn.sent[i]))
         <= Cardinality(EndedOf(nodeConn.sent[i]))

\* C40: the state in which a request that repeats the id and node id of an
\* answered one has been answered as well: two results carry the same id.
C40_RepeatedIdAnswered ==
  \E i, j \in DOMAIN nodeConn.sent :
    /\ i # j
    /\ nodeConn.sent[i].id = nodeConn.sent[j].id
    /\ nodeConn.sent[i].nodeId = nodeConn.sent[j].nodeId

\* C40: on an open socket, without a handler and when the handler throws,
\* the result sent in the same step has ok false; a handler that rejects
\* gives ok false too.
C40_FailureIsReported ==
  [][/\ \A p \in InvokePayloads, call \in {"throws", "returns"} :
          (InvokeRequestAt(p, call) /\ (~nodeConn.invokeHandler \/ call = "throws")
             /\ nodeConn.readyState = "OPEN")
            => /\ Len(nodeConn'.sent) = Len(nodeConn.sent) + 1
               /\ ~nodeConn'.sent[Len(nodeConn'.sent)].ok
               /\ nodeConn'.sent[Len(nodeConn'.sent)].id = p.id
               /\ nodeConn'.sent[Len(nodeConn'.sent)].nodeId = p.nodeId
     /\ \A i \in 1..MaxInvokes, o \in HandlerOutcomes :
          (HandlerSettlesAt(i, o) /\ o.settled = "rejected"
             /\ nodeConn.readyState = "OPEN")
            => /\ Len(nodeConn'.sent) = Len(nodeConn.sent) + 1
               /\ ~nodeConn'.sent[Len(nodeConn'.sent)].ok
               /\ nodeConn'.sent[Len(nodeConn'.sent)].id = nodeConn.received[i].id
               /\ nodeConn'.sent[Len(nodeConn'.sent)].nodeId
                    = nodeConn.received[i].nodeId]_vars

\* C40: nothing is sent on a transport that is not open.
C40_ClosedSendsNothing ==
  [][nodeConn.readyState # "OPEN" => nodeConn'.sent = nodeConn.sent]_vars

====
